---- MODULE Spec2Model ----
(***************************************************************************)
(* Batch stock analysis: the thread-safe progress store                    *)
(* (web/utils/batch_progress_store.py), the sequential orchestrator        *)
(* run_batch_stock_analysis (web/utils/batch_analysis_runner.py) and the   *)
(* admission step of the batch page (web/app.py).                          *)
(*                                                                         *)
(* Python values are modelled as follows.                                  *)
(*  - A dict is a function whose DOMAIN is its key set.                    *)
(*  - The nested dict 'progress_info' and the list 'completed_stocks' of a *)
(*    store entry are heap objects: the entry holds a reference, the       *)
(*    object lives in store.dicts / store.lists.  A copy of the entry that *)
(*    copies only the top level therefore shares both objects.             *)
(*  - An optional argument is a set: {} is None, {v} is the value v.       *)
(*  - 'progress' is a percentage kept as an exact integer in units of      *)
(*    100/Full percent, so that 100.0 is Full.                             *)
(*  - time.time() is the logical clock 'clock'.                            *)
(***************************************************************************)
EXTENDS Integers, Sequences, FiniteSets, TLC

\* ------------------------------------------------------------------ bounds
MaxJobs == 3
MaxSteps == 2
MaxCallbacks == 1
MaxClock == 1
MaxAppends == 2
NumReaders == 2
NumSessions == 2
MaxPoints == 2
MaxOps == 4
MaxSymbols == 3
NumThreads == 2

RECURSIVE Fact(_)
Fact(n) == IF n <= 1 THEN 1 ELSE n * Fact(n - 1)

\* 100.0 percent, in units that make every ((i-1) + step/total_steps)/N exact
Full == Fact(MaxJobs) * Fact(MaxSteps)

Symbols == {"AAA", "BBB"}
BatchIds == {"batch_a", "batch_b"}
Users == {"alice", "bob"}
Readers == 1..NumReaders
Sessions == 1..NumSessions
Refs == 1..(Cardinality(BatchIds) + NumReaders + 1)
None == {}

VARIABLES
    store,          \* _batches with the heap of the nested objects it refers to
    clock,          \* time.time()
    snap,           \* per reader: the dict returned by get_snapshot, or NoSnap
    seen,           \* per reader: the fields it read out of its snapshot
    lastOp,         \* the store call performed by the last step
    ops,            \* number of calls made by the callers of the store
    stock_symbols,  \* run_batch_stock_analysis: the job list
    batch_id,       \* run_batch_stock_analysis: the batch id
    owner,          \* the user that created the batch
    pc,             \* run_batch_stock_analysis: position in the code
    i,              \* run_batch_stock_analysis: loop index (0-based)
    progress_callback, \* run_batch_stock_analysis: whether a consumer was passed
    callbacks,      \* progress callbacks made by the job that is running
    results,        \* run_batch_stock_analysis: results, keyed by symbol
    errors,         \* run_batch_stock_analysis: errors
    invoked,        \* job indices for which run_stock_analysis was called
    outcome,        \* what each invoked job did
    summary,        \* the value returned by run_batch_stock_analysis
    points,         \* the users' points balances
    points0,        \* the balances before any submission
    page,           \* per browser session: the batch page (web/app.py)
    pricing,        \* model_points.py: the configuration held in memory
    quote,          \* the last cost quoted for a batch, with its inputs
    form,           \* batch_analysis_form.py: the submitted text and what was parsed
    restore,        \* app.py: a session that restores an analysis id, and the ids created
    threads,        \* batch_progress_store.py: _lock and the threads calling the store
    config_file,    \* model_points.py: the content of CONFIG_FILE on disk, None without a file
    license         \* license_manager.py: each user's .batch_license file

vars == <<store, clock, snap, seen, lastOp, ops, stock_symbols, batch_id, owner,
          progress_callback, pc, i, callbacks, results, errors, invoked, outcome, summary,
          points, points0, page, pricing, quote, form, restore, threads, config_file, license>>

runnerVars == <<stock_symbols, batch_id, owner, progress_callback, pc, i, callbacks, results,
                errors, invoked, outcome, summary>>

pageVars == <<points, points0, page>>

pricingVars == <<pricing, quote>>

formVars == <<form>>

appVars == <<restore, threads, config_file, license>>

\* ------------------------------------------------------------ dict helpers
Put(f, k, v) == [x \in (DOMAIN f) \cup {k} |-> IF x = k THEN v ELSE f[x]]

Drop(f, k) == [x \in (DOMAIN f) \ {k} |-> f[x]]

\* dict.update(other)
Update(d, other) ==
    [k \in (DOMAIN d) \cup (DOMAIN other) |->
        IF k \in DOMAIN other THEN other[k] ELSE d[k]]

EmptyDict == [x \in {} |-> x]

\* ------------------------------------------------------- the progress store
EmptyStore == [batches |-> EmptyDict, dicts |-> EmptyDict, lists |-> EmptyDict]

init_batch_keeps(S, id, total_stocks, now, ref) ==
    IF id \in DOMAIN S.batches
    THEN [S EXCEPT !.batches[id].status = "running",
                   !.batches[id].last_update = now]
    ELSE [batches |-> Put(S.batches, id,
                          [progress_info |-> ref,
                           completed_stocks |-> ref,
                           status |-> "running",
                           last_update |-> now]),
          dicts |-> Put(S.dicts, ref,
                        [current_stock |-> "",
                         current_index |-> 0,
                         total_stocks |-> total_stocks,
                         progress |-> 0,
                         status |-> "preparing",
                         start_time |-> now]),
          lists |-> Put(S.lists, ref, <<>>)]

init_batch(S, id, total_stocks, now, ref) ==
    [batches |-> Put(S.batches, id,
                     [progress_info |-> ref,
                      completed_stocks |-> ref,
                      status |-> "running",
                      last_update |-> now]),
     dicts |-> Put(S.dicts, ref,
                   [current_stock |-> "",
                    current_index |-> 0,
                    total_stocks |-> total_stocks,
                    progress |-> 0,
                    status |-> "preparing",
                    start_time |-> now]),
     lists |-> Put(S.lists, ref, <<>>)]

update_progress_stamps(S, id, progress_info, now) ==
    IF id \notin DOMAIN S.batches THEN S
    ELSE LET e == S.batches[id] IN
         [S EXCEPT !.dicts[e.progress_info] =
                       Update(Update(@, progress_info), [start_time |-> now]),
                   !.batches[id].last_update = now]

update_progress(S, id, progress_info, now) ==
    IF id \notin DOMAIN S.batches THEN S
    ELSE LET e == S.batches[id] IN
         [S EXCEPT !.dicts[e.progress_info] = Update(@, progress_info),
                   !.batches[id].last_update = now]

add_completed_stock(S, id, result, now) ==
    IF id \notin DOMAIN S.batches THEN S
    ELSE LET e == S.batches[id] IN
         [S EXCEPT !.lists[e.completed_stocks] = Append(@, result),
                   !.batches[id].last_update = now]

set_status_running(S, id, status, progress, now) ==
    IF id \notin DOMAIN S.batches THEN S
    ELSE LET e == S.batches[id] IN
         [S EXCEPT !.dicts[e.progress_info] =
                       IF progress # None
                       THEN [@ EXCEPT !.status = status,
                                      !.progress = CHOOSE p \in progress : TRUE]
                       ELSE [@ EXCEPT !.status = status],
                   !.batches[id].status =
                       IF progress = {Full} THEN "completed" ELSE "running",
                   !.batches[id].last_update = now]

set_status(S, id, status, progress, now) ==
    IF id \notin DOMAIN S.batches THEN S
    ELSE LET e == S.batches[id] IN
         [S EXCEPT !.dicts[e.progress_info] =
                       IF progress # None
                       THEN [@ EXCEPT !.status = status,
                                      !.progress = CHOOSE p \in progress : TRUE]
                       ELSE [@ EXCEPT !.status = status],
                   !.batches[id].status =
                       IF progress = {Full} THEN "completed" ELSE @,
                   !.batches[id].last_update = now]

complete_batch(S, id, now) ==
    IF id \notin DOMAIN S.batches THEN S
    ELSE LET e == S.batches[id] IN
         [S EXCEPT !.batches[id].status = "completed",
                   !.dicts[e.progress_info] =
                       [@ EXCEPT !.status = "batch completed",
                                 !.progress = Full],
                   !.batches[id].last_update = now]

fail_batch_creates(S, id, error, now) ==
    IF id \notin DOMAIN S.batches
    THEN [S EXCEPT !.batches = Put(@, id,
                       [progress_info |-> 0, completed_stocks |-> 0,
                        status |-> "failed", last_update |-> now]),
                   !.dicts = Put(@, 0, [status |-> "batch failed: " \o error]),
                   !.lists = Put(@, 0, <<>>)]
    ELSE LET e == S.batches[id] IN
         [S EXCEPT !.batches[id].status = "failed",
                   !.dicts[e.progress_info] =
                       [@ EXCEPT !.status = "batch failed: " \o error],
                   !.batches[id].last_update = now]

fail_batch(S, id, error, now) ==
    IF id \notin DOMAIN S.batches THEN S
    ELSE LET e == S.batches[id] IN
         [S EXCEPT !.batches[id].status = "failed",
                   !.dicts[e.progress_info] =
                       [@ EXCEPT !.status = "batch failed: " \o error],
                   !.batches[id].last_update = now]

\* dict(_batches.get(batch_id, {})): a new top-level dict, same nested objects
get_snapshot(S, id) ==
    IF id \in DOMAIN S.batches THEN S.batches[id] ELSE EmptyDict

clear_batch_all(S, id) ==
    IF id \in DOMAIN S.batches THEN [S EXCEPT !.batches = EmptyDict] ELSE S

clear_batch(S, id) ==
    IF id \in DOMAIN S.batches THEN [S EXCEPT !.batches = Drop(@, id)] ELSE S

\* ------------------------------------------------- heap objects and readers
NoSnap == [nosnap |-> TRUE]

EntryRefs(S) == {S.batches[b].progress_info : b \in DOMAIN S.batches}

SnapRefs(sn) ==
    {sn[r].progress_info : r \in {x \in Readers : "progress_info" \in DOMAIN sn[x]}}

\* objects nobody refers to any more are gone
Collect(S, sn) ==
    LET live == EntryRefs(S) \cup SnapRefs(sn) IN
    [S EXCEPT !.dicts = [o \in (DOMAIN S.dicts) \cap live |-> S.dicts[o]],
              !.lists = [o \in (DOMAIN S.lists) \cap live |-> S.lists[o]]]

FreshRef == CHOOSE o \in Refs : o \notin EntryRefs(store) \cup SnapRefs(snap)

\* what a holder of the top-level dict d reads through it
Deref(S, d) ==
    IF "progress_info" \in DOMAIN d
    THEN [progress_info |-> S.dicts[d.progress_info],
          completed_stocks |-> S.lists[d.completed_stocks],
          status |-> d.status,
          last_update |-> d.last_update]
    ELSE EmptyDict

StoreValue == [b \in DOMAIN store.batches |-> Deref(store, store.batches[b])]

SnapshotValue(r) == IF snap[r] = NoSnap THEN NoSnap ELSE Deref(store, snap[r])

NoOp == [op |-> "none", id |-> ""]

\* st.session_state of one browser session on the batch page
NewSession(username) ==
    [user |-> username,
     pc |-> "form",
     stock_symbols |-> <<>>,
     points_per_stock |-> 0,
     need_points |-> 0,
     deducted |-> FALSE,
     raised |-> FALSE,
     debits |-> 0,
     balance_before |-> 0,
     balance_after |-> 0,
     batch_analysis_running |-> FALSE,
     current_batch_id |-> None,
     jobs_run |-> 0,
     progress_data |-> None,
     completed_items |-> <<>>,
     completed_stocks |-> <<>>,
     batch_analysis_results |-> None]

\* ------------------------------------------------------------ model_points.py
\* The pricing configuration and its lookups.  A string is a sequence of
\* tokens, so that lower(), strip() and startswith() are computed: "" is
\* << >>, " " is a token of its own and a capitalised token has a lower-case
\* form.  The dict of model points keeps its insertion order: it is a sequence
\* of entries with distinct (provider, model) keys.  'pricing' holds the three
\* caches once loaded.
DEFAULT_POINTS == 1

DEFAULT_RESEARCH_DEPTH_POINTS_CONFIG ==
    [d \in 1..5 |-> CASE d = 1 -> 1 [] d = 2 -> 2 [] d = 3 -> 3 [] d = 4 -> 5 [] d = 5 -> 8]

DEFAULT_POINTS_TOGGLE_CONFIG ==
    [enable_research_depth_points |-> TRUE, enable_model_points |-> TRUE]

\* an excerpt of the default table
DEFAULT_MODEL_POINTS_CONFIG ==
    <<[provider |-> <<"dashscope">>, model |-> <<"qwen", "-turbo">>, points |-> 1],
      [provider |-> <<"dashscope">>, model |-> <<"qwen", "-plus">>, points |-> 2],
      [provider |-> <<"openrouter">>, model |-> <<"default">>, points |-> 2],
      [provider |-> <<"openrouter">>, model |-> <<"gpt", "-4o">>, points |-> 5]>>

DefaultPricing ==
    [config |-> DEFAULT_MODEL_POINTS_CONFIG,
     research_depth_points |-> DEFAULT_RESEARCH_DEPTH_POINTS_CONFIG,
     points_toggle |-> DEFAULT_POINTS_TOGGLE_CONFIG]

NoQuote == [noquote |-> TRUE]

LowerToken(c) ==
    CASE c = "DashScope" -> "dashscope"
      [] c = "OpenRouter" -> "openrouter"
      [] OTHER -> c

lower(t) == [k \in 1..Len(t) |-> LowerToken(t[k])]

RECURSIVE strip(_)
strip(t) ==
    IF t = << >> THEN t
    ELSE IF Head(t) \in {" ", "LF"} THEN strip(Tail(t))
    ELSE IF t[Len(t)] \in {" ", "LF"} THEN strip(SubSeq(t, 1, Len(t) - 1))
    ELSE t

startswith(a, b) == Len(b) <= Len(a) /\ SubSeq(a, 1, Len(b)) = b

DefaultProviders == {<<"openrouter">>, <<"custom_openai">>, <<"qianfan">>}

get_model_points_fuzzy_first(config, llm_provider, llm_model) ==
    LET provider == strip(lower(llm_provider))
        model == strip(llm_model)
        exact == {k \in 1..Len(config) :
                     config[k].provider = provider /\ config[k].model = model}
        default == {k \in 1..Len(config) :
                       config[k].provider = provider /\ config[k].model = <<"default">>}
        fuzzy == {k \in 1..Len(config) :
                     /\ config[k].provider = provider
                     /\ config[k].model # <<"default">>
                     /\ \/ model = config[k].model
                        \/ /\ provider \notin DefaultProviders
                           /\ \/ startswith(model, config[k].model)
                              \/ startswith(config[k].model, model)}
        first(K) == CHOOSE k \in K : \A m \in K : k <= m
    IN  IF fuzzy # {} THEN config[first(fuzzy)].points
        ELSE IF exact # {} THEN config[first(exact)].points
        ELSE IF provider \in DefaultProviders /\ default # {}
             THEN config[first(default)].points
        ELSE DEFAULT_POINTS

\* lines 180-231
get_model_points(config, llm_provider, llm_model) ==
    LET provider == strip(lower(llm_provider))
        model == strip(llm_model)
        exact == {k \in 1..Len(config) :
                     config[k].provider = provider /\ config[k].model = model}
        default == {k \in 1..Len(config) :
                       config[k].provider = provider /\ config[k].model = <<"default">>}
        fuzzy == {k \in 1..Len(config) :
                     /\ config[k].provider = provider
                     /\ config[k].model # <<"default">>
                     /\ \/ model = config[k].model
                        \/ /\ provider \notin DefaultProviders
                           /\ \/ startswith(model, config[k].model)
                              \/ startswith(config[k].model, model)}
        first(K) == CHOOSE k \in K : \A m \in K : k <= m
    IN  IF exact # {} THEN config[first(exact)].points
        ELSE IF provider \in DefaultProviders /\ default # {}
             THEN config[first(default)].points
        ELSE IF fuzzy # {} THEN config[first(fuzzy)].points
        ELSE DEFAULT_POINTS

\* lines 355-376, for a research_depth in 1..5 (any other value raises)
get_research_depth_points(P, research_depth) ==
    IF research_depth \in DOMAIN P.research_depth_points
    THEN P.research_depth_points[research_depth]
    ELSE DEFAULT_RESEARCH_DEPTH_POINTS_CONFIG[research_depth]

get_analysis_points_all_enabled(P, research_depth, llm_provider, llm_model) ==
    get_research_depth_points(P, research_depth)
        + get_model_points(P.config, llm_provider, llm_model)

\* lines 483-512
get_analysis_points(P, research_depth, llm_provider, llm_model) ==
    LET enable_research_depth_points == P.points_toggle.enable_research_depth_points
        enable_model_points == P.points_toggle.enable_model_points
        depth_points ==
            IF enable_research_depth_points
            THEN get_research_depth_points(P, research_depth)
            ELSE 0
        model_points ==
            IF enable_model_points /\ llm_provider # << >> /\ llm_model # << >>
            THEN get_model_points(P.config, llm_provider, llm_model)
            ELSE 0
    IN  depth_points + model_points

\* ------------------------------------------------- batch_analysis_form.py
\* A string is the sequence of its characters; "LF" is the newline character.
\* The market types of the form are written "A" (A shares), "HK" and "US";
\* "other" stands for any other value of market_type.
upper(t) ==
    LET UpperChar(c) == CASE c = "a" -> "A" [] c = "h" -> "H" [] c = "k" -> "K"
                          [] OTHER -> c
    IN  [k \in DOMAIN t |-> UpperChar(t[k])]

zfill(t, width) ==
    IF Len(t) >= width THEN t ELSE [k \in 1..(width - Len(t)) |-> "0"] \o t

\* The value of a call: what it returned, or that it raised ValueError.
validate_and_format_symbol_lower_suffix(symbol0, market_type) ==
    LET symbol == strip(symbol0)
        symbol_upper == upper(symbol)
        Digits(t) == \A k \in DOMAIN t : t[k] \in {"0", "7"}
        Letters(t) == \A k \in DOMAIN t : t[k] \in {"A", "H", "K"}
        Returned(t) == [ok |-> TRUE, value |-> t]
        Raised == [ok |-> FALSE, value |-> << >>]
        hk_format == /\ Len(symbol_upper) - 3 \in 4..5
                     /\ Digits(SubSeq(symbol_upper, 1, Len(symbol_upper) - 3))
                     /\ SubSeq(symbol_upper, Len(symbol_upper) - 2, Len(symbol_upper))
                            = <<".", "H", "K">>
        digit_format == Len(symbol) \in 4..5 /\ Digits(symbol)
    IN  CASE market_type = "A" ->
                 IF Len(symbol) = 6 /\ Digits(symbol) THEN Returned(symbol) ELSE Raised
          [] market_type = "HK" ->
                 IF hk_format THEN Returned(symbol_upper)
                 ELSE IF digit_format THEN Returned(zfill(symbol, 4) \o <<".", "h", "k">>)
                 ELSE Raised
          [] market_type = "US" ->
                 IF Len(symbol_upper) \in 1..5 /\ Letters(symbol_upper)
                 THEN Returned(symbol_upper) ELSE Raised
          [] OTHER -> Returned(symbol)

validate_and_format_symbol(symbol0, market_type) ==
    LET symbol == strip(symbol0)
        symbol_upper == upper(symbol)
        Digits(t) == \A k \in DOMAIN t : t[k] \in {"0", "7"}
        Letters(t) == \A k \in DOMAIN t : t[k] \in {"A", "H", "K"}
        Returned(t) == [ok |-> TRUE, value |-> t]
        Raised == [ok |-> FALSE, value |-> << >>]
        hk_format == /\ Len(symbol_upper) - 3 \in 4..5
                     /\ Digits(SubSeq(symbol_upper, 1, Len(symbol_upper) - 3))
                     /\ SubSeq(symbol_upper, Len(symbol_upper) - 2, Len(symbol_upper))
                            = <<".", "H", "K">>
        digit_format == Len(symbol) \in 4..5 /\ Digits(symbol)
    IN  CASE market_type = "A" ->
                 IF Len(symbol) = 6 /\ Digits(symbol) THEN Returned(symbol) ELSE Raised
          [] market_type = "HK" ->
                 IF hk_format THEN Returned(symbol_upper)
                 ELSE IF digit_format THEN Returned(zfill(symbol, 4) \o <<".", "H", "K">>)
                 ELSE Raised
          [] market_type = "US" ->
                 IF Len(symbol_upper) \in 1..5 /\ Letters(symbol_upper)
                 THEN Returned(symbol_upper) ELSE Raised
          [] OTHER -> Returned(symbol)

\* str.split(sep)
RECURSIVE split(_, _)
split(t, sep) ==
    IF \E k \in DOMAIN t : t[k] = sep
    THEN LET k == CHOOSE j \in DOMAIN t :
                      t[j] = sep /\ \A h \in 1..(j - 1) : t[h] # sep
         IN  <<SubSeq(t, 1, k - 1)>> \o split(SubSeq(t, k + 1, Len(t)), sep)
    ELSE <<t>>

parse_stock_symbols(stock_text, market_type) ==
    LET RECURSIVE Concat(_)
        Concat(seqs) == IF seqs = << >> THEN << >>
                        ELSE Head(seqs) \o Concat(Tail(seqs))
        NonEmpty(t) == t # << >>
        SymbolsOf(line) ==
            LET pieces == split(line, ",")
            IN  SelectSeq([k \in DOMAIN pieces |-> strip(pieces[k])], NonEmpty)
        lines == split(stock_text, "LF")
        symbols == Concat([k \in DOMAIN lines |-> SymbolsOf(lines[k])])
        checked == [k \in DOMAIN symbols |->
                        validate_and_format_symbol(symbols[k], market_type)]
        Kept(r) == r.ok /\ r.value # << >>
        validated == SelectSeq(checked, Kept)
    IN  IF stock_text = << >> \/ strip(stock_text) = << >> THEN << >>
        ELSE [k \in DOMAIN validated |-> validated[k].value]

NoForm == [pieces |-> << >>, stock_text |-> << >>, market_type |-> "other",
           parsed |-> None]

NoThreads == [lock |-> {}, of |-> << >>]

NoConfigFile == None

\* no user has a license file; "" is the file of a caller without a username
NoLicense == [u \in Users \cup {""} |-> [machine_code |-> None, activated |-> FALSE]]

NoRestore == [username |-> << >>, created |-> {}, current_analysis_id |-> None,
              analysis_results |-> None, analysis_running |-> FALSE]

\* ------------------------------------------------ the store used on its own
\* Any caller, any argument: the operations of batch_progress_store.py
\* applied in any order to the ids of BatchIds, with readers that keep what
\* get_snapshot returned.
ProgressUpdates ==
    {[current_stock |-> "AAA", current_index |-> 1, total_stocks |-> 2,
      progress |-> Full \div 2, status |-> "start"],
     [status |-> "waiting", progress |-> Full \div 2]}

StoreResults ==
    {[stock_symbol |-> "AAA", success |-> TRUE, error |-> "none", payload |-> "formatted"],
     [stock_symbol |-> "BBB", success |-> FALSE, error |-> "returned", payload |-> "none"]}

StoreInit ==
    /\ store = EmptyStore
    /\ clock = 0
    /\ snap = [r \in Readers |-> NoSnap]
    /\ seen = [r \in Readers |-> NoSnap]
    /\ lastOp = NoOp
    /\ ops = 0
    /\ stock_symbols = <<>>
    /\ batch_id = "batch_a"
    /\ owner = "alice"
    /\ progress_callback = FALSE
    /\ pc = "idle"
    /\ i = 0
    /\ callbacks = 0
    /\ results = EmptyDict
    /\ errors = <<>>
    /\ invoked = <<>>
    /\ outcome = <<>>
    /\ summary = EmptyDict
    /\ points = [u \in Users |-> 0]
    /\ points0 = points
    /\ page = [s \in Sessions |-> NewSession("alice")]
    /\ pricing = DefaultPricing
    /\ quote = NoQuote
    /\ form = NoForm
    /\ restore = NoRestore
    /\ threads = NoThreads
    /\ config_file = NoConfigFile
    /\ license = NoLicense

ListFull(S, id) ==
    id \in DOMAIN S.batches /\ Len(S.lists[S.batches[id].completed_stocks]) >= MaxAppends

CallInitBatch(id, n) ==
    /\ ops < MaxOps
    /\ ops' = ops + 1
    /\ store' = Collect(init_batch(store, id, n, clock, FreshRef), snap)
    /\ lastOp' = [op |-> "init_batch", id |-> id]
    /\ UNCHANGED <<clock, snap, seen, runnerVars, pageVars, pricingVars, formVars, appVars>>

CallUpdateProgress(id, info) ==
    /\ ops < MaxOps
    /\ ops' = ops + 1
    /\ store' = update_progress(store, id, info, clock)
    /\ lastOp' = [op |-> "update_progress", id |-> id]
    /\ UNCHANGED <<clock, snap, seen, runnerVars, pageVars, pricingVars, formVars, appVars>>

CallAddCompletedStock(id, result) ==
    /\ ops < MaxOps
    /\ ops' = ops + 1
    /\ ~ListFull(store, id)
    /\ store' = add_completed_stock(store, id, result, clock)
    /\ lastOp' = [op |-> "add_completed_stock", id |-> id]
    /\ UNCHANGED <<clock, snap, seen, runnerVars, pageVars, pricingVars, formVars, appVars>>

CallSetStatus(id, status, progress) ==
    /\ ops < MaxOps
    /\ ops' = ops + 1
    /\ store' = set_status(store, id, status, progress, clock)
    /\ lastOp' = [op |-> "set_status", id |-> id]
    /\ UNCHANGED <<clock, snap, seen, runnerVars, pageVars, pricingVars, formVars, appVars>>

CallCompleteBatch(id) ==
    /\ ops < MaxOps
    /\ ops' = ops + 1
    /\ store' = complete_batch(store, id, clock)
    /\ lastOp' = [op |-> "complete_batch", id |-> id]
    /\ UNCHANGED <<clock, snap, seen, runnerVars, pageVars, pricingVars, formVars, appVars>>

CallFailBatch(id, error) ==
    /\ ops < MaxOps
    /\ ops' = ops + 1
    /\ store' = fail_batch(store, id, error, clock)
    /\ lastOp' = [op |-> "fail_batch", id |-> id]
    /\ UNCHANGED <<clock, snap, seen, runnerVars, pageVars, pricingVars, formVars, appVars>>

CallClearBatch(id) ==
    /\ ops < MaxOps
    /\ ops' = ops + 1
    /\ store' = Collect(clear_batch(store, id), snap)
    /\ lastOp' = [op |-> "clear_batch", id |-> id]
    /\ UNCHANGED <<clock, snap, seen, runnerVars, pageVars, pricingVars, formVars, appVars>>

\* a reader calls get_snapshot and keeps the returned dict
CallGetSnapshot(r, id) ==
    /\ ops < MaxOps
    /\ ops' = ops + 1
    /\ snap' = [snap EXCEPT ![r] = get_snapshot(store, id)]
    /\ store' = Collect(store, snap')
    /\ lastOp' = [op |-> "get_snapshot", id |-> id]
    /\ UNCHANGED <<clock, seen, runnerVars, pageVars, pricingVars, formVars, appVars>>

\* a reader appends to the list inside the dict it was given
MutateSnapshot(r) ==
    /\ ops < MaxOps
    /\ ops' = ops + 1
    /\ "completed_stocks" \in DOMAIN snap[r]
    /\ Len(store.lists[snap[r].completed_stocks]) < MaxAppends
    /\ \E result \in StoreResults :
          store' = [store EXCEPT !.lists[snap[r].completed_stocks] = Append(@, result)]
    /\ lastOp' = [op |-> "mutate_snapshot", id |-> ""]
    /\ UNCHANGED <<clock, snap, seen, runnerVars, pageVars, pricingVars, formVars, appVars>>

Tick ==
    /\ clock < MaxClock
    /\ clock' = clock + 1
    /\ lastOp' = NoOp
    /\ UNCHANGED <<store, snap, seen, ops, runnerVars, pageVars, pricingVars, formVars, appVars>>

StoreNext ==
    \/ \E id \in BatchIds, n \in 1..2 : CallInitBatch(id, n)
    \/ \E id \in BatchIds, info \in ProgressUpdates : CallUpdateProgress(id, info)
    \/ \E id \in BatchIds, result \in StoreResults : CallAddCompletedStock(id, result)
    \/ \E id \in BatchIds, progress \in {None, {0}, {Full}} : CallSetStatus(id, "message", progress)
    \/ \E id \in BatchIds : CallCompleteBatch(id)
    \/ \E id \in BatchIds : CallFailBatch(id, "fault")
    \/ \E id \in BatchIds : CallClearBatch(id)
    \/ \E r \in Readers, id \in BatchIds : CallGetSnapshot(r, id)
    \/ \E r \in Readers : MutateSnapshot(r)
    \/ Tick

SpecStore == StoreInit /\ [][StoreNext]_vars

TypeOK == clock \in 0..MaxClock

\* ------------------------------------------------ run_batch_stock_analysis
\* One call of run_batch_stock_analysis(stock_symbols, ..., progress_callback,
\* batch_id).  run_stock_analysis is the black box: it makes any number of
\* progress callbacks and then returns success, returns failure or raises.
\* progress_callback is the caller's: each call of it returns or raises (the
\* parameter 'raise'; with progress_callback=None nothing is called).  An
\* exception raised by it inside the job's own callback travels through
\* run_stock_analysis and is part of that job's
\* outcome.  analysis_time and analysis_duration are left out of the results.
RECURSIVE SeqsOf(_, _)
SeqsOf(S, n) ==
    IF n = 0 THEN {<<>>}
    ELSE LET shorter == SeqsOf(S, n - 1) IN
         shorter \cup {Append(q, x) : q \in {p \in shorter : Len(p) = n - 1}, x \in S}

Total == Len(stock_symbols)

CurrentSymbol == stock_symbols[i + 1]

Max(a, b) == IF a >= b THEN a ELSE b

Min(a, b) == IF a <= b THEN a ELSE b

\* (current_index / total_stocks) * 100
progress_percent(current_index, total_stocks) ==
    (current_index * Full) \div total_stocks

\* max(0.0, min(1.0, step / total_steps)), in units of 1/Fact(MaxSteps)
fine_progress(step, total_steps) ==
    IF step # None /\ total_steps # None /\ (CHOOSE t \in total_steps : TRUE) > 0
    THEN LET s == CHOOSE x \in step : TRUE
             t == CHOOSE x \in total_steps : TRUE
         IN  Max(0, Min(Fact(MaxSteps), (s * Fact(MaxSteps)) \div t))
    ELSE 0

\* ((index - 1) + fine_progress) / max(1, total) * 100.0
overall_progress(index, total, step, total_steps) ==
    (((index - 1) * Fact(MaxSteps) + fine_progress(step, total_steps)) * Fact(MaxJobs))
        \div Max(1, total)

SuccessResult(symbol) ==
    [stock_symbol |-> symbol, success |-> TRUE, error |-> "none", payload |-> "formatted"]

FailureResult_with_payload(symbol, error) ==
    [stock_symbol |-> symbol, success |-> FALSE, error |-> error, payload |-> "formatted"]

FailureResult(symbol, error) ==
    [stock_symbol |-> symbol, success |-> FALSE, error |-> error, payload |-> "none"]

RunnerInit ==
    /\ store = EmptyStore
    /\ clock = 0
    /\ snap = [r \in Readers |-> NoSnap]
    /\ seen = [r \in Readers |-> NoSnap]
    /\ lastOp = NoOp
    /\ ops = 0
    /\ stock_symbols \in SeqsOf(Symbols, MaxJobs)
    /\ batch_id = "batch_a"
    /\ owner \in Users
    /\ progress_callback \in BOOLEAN
    /\ pc = "init"
    /\ i = 0
    /\ callbacks = 0
    /\ results = EmptyDict
    /\ errors = <<>>
    /\ invoked = <<>>
    /\ outcome = <<>>
    /\ summary = EmptyDict
    /\ points = [u \in Users |-> 0]
    /\ points0 = points
    /\ page = [s \in Sessions |-> NewSession("alice")]
    /\ pricing = DefaultPricing
    /\ quote = NoQuote
    /\ form = NoForm
    /\ restore = NoRestore
    /\ threads = NoThreads
    /\ config_file = NoConfigFile
    /\ license = NoLicense

RunInitBatch_not_called ==
    /\ pc = "init"
    /\ lastOp' = NoOp
    /\ pc' = "loop"
    /\ UNCHANGED <<pageVars, pricingVars, formVars, appVars, store, clock, snap, seen, ops, stock_symbols, batch_id, owner,
                   progress_callback, i, callbacks, results, errors, invoked, outcome, summary>>

\* lines 107-111
RunInitBatch ==
    /\ pc = "init"
    /\ store' = Collect(init_batch(store, batch_id, Total, clock, FreshRef), snap)
    /\ lastOp' = [op |-> "init_batch", id |-> batch_id]
    /\ pc' = "loop"
    /\ UNCHANGED <<pageVars, pricingVars, formVars, appVars, clock, snap, seen, ops, stock_symbols, batch_id, owner, progress_callback, i,
                   callbacks, results, errors, invoked, outcome, summary>>

\* lines 114-143 and the call at line 188
JobStart(raise) ==
    /\ raise => progress_callback
    /\ pc = "loop"
    /\ i < Total
    /\ store' = update_progress(store, batch_id,
                    [current_stock |-> CurrentSymbol,
                     current_index |-> i + 1,
                     total_stocks |-> Total,
                     progress |-> progress_percent(i + 1, Total),
                     status |-> "start"], clock)
    /\ lastOp' = [op |-> "update_progress", id |-> batch_id]
    /\ callbacks' = 0
    /\ IF raise
       THEN pc' = "except" /\ UNCHANGED invoked
       ELSE pc' = "running" /\ invoked' = Append(invoked, i + 1)
    /\ UNCHANGED <<pageVars, pricingVars, formVars, appVars, clock, snap, seen, ops, stock_symbols, batch_id, owner, progress_callback, i,
                   results, errors, outcome, summary>>

\* lines 149-182: stock_progress_callback(message, step, total_steps)
StockProgress(step, total_steps) ==
    /\ pc = "running"
    /\ callbacks < MaxCallbacks
    /\ store' = update_progress(store, batch_id,
                    [current_stock |-> CurrentSymbol,
                     current_index |-> i + 1,
                     total_stocks |-> Total,
                     progress |-> overall_progress(i + 1, Total, step, total_steps),
                     status |-> "analysing"], clock)
    /\ lastOp' = [op |-> "update_progress", id |-> batch_id]
    /\ callbacks' = callbacks + 1
    /\ UNCHANGED <<pageVars, pricingVars, formVars, appVars, clock, snap, seen, ops, stock_symbols, batch_id, owner, progress_callback, pc, i,
                   results, errors, invoked, outcome, summary>>

\* lines 188-263: run_stock_analysis returns or raises, the result is handled
JobReturns(kind, raise) ==
    /\ raise => progress_callback
    /\ pc = "running"
    /\ outcome' = Append(outcome, kind)
    /\ \/ /\ kind = "success"
          /\ results' = Put(results, CurrentSymbol, SuccessResult(CurrentSymbol))
          /\ store' = add_completed_stock(store, batch_id, SuccessResult(CurrentSymbol), clock)
          /\ lastOp' = [op |-> "add_completed_stock", id |-> batch_id]
          /\ pc' = IF raise THEN "except" ELSE "after"
          /\ UNCHANGED errors
       \/ /\ kind = "failure"
          /\ errors' = Append(errors, [stock_symbol |-> CurrentSymbol, error |-> "returned"])
          /\ store' = add_completed_stock(store, batch_id,
                          FailureResult(CurrentSymbol, "returned"), clock)
          /\ lastOp' = [op |-> "add_completed_stock", id |-> batch_id]
          /\ pc' = IF raise THEN "except" ELSE "after"
          /\ UNCHANGED results
       \/ /\ kind = "raises"
          /\ ~raise
          /\ pc' = "except"
          /\ lastOp' = NoOp
          /\ UNCHANGED <<store, results, errors>>
    /\ UNCHANGED <<pageVars, pricingVars, formVars, appVars, clock, snap, seen, ops, stock_symbols, batch_id, owner, progress_callback, i,
                   callbacks, invoked, summary>>

\* lines 265-287
AfterJob(raise) ==
    /\ raise => progress_callback
    /\ pc = "after"
    /\ IF i < Total - 1
       THEN /\ store' = update_progress(store, batch_id,
                            [status |-> "waiting",
                             progress |-> progress_percent(i + 1, Total)], clock)
            /\ lastOp' = [op |-> "update_progress", id |-> batch_id]
            /\ IF raise
               THEN pc' = "except" /\ UNCHANGED i
               ELSE pc' = "loop" /\ i' = i + 1
       ELSE /\ ~raise
            /\ pc' = "loop"
            /\ i' = i + 1
            /\ lastOp' = NoOp
            /\ UNCHANGED store
    /\ UNCHANGED <<pageVars, pricingVars, formVars, appVars, clock, snap, seen, ops, stock_symbols, batch_id, owner, progress_callback,
                   callbacks, results, errors, invoked, outcome, summary>>

HandleException_no_append(raise) ==
    /\ raise => progress_callback
    /\ pc = "except"
    /\ errors' = Append(errors, [stock_symbol |-> CurrentSymbol, error |-> "raised"])
    /\ lastOp' = NoOp
    /\ IF raise
       THEN pc' = "aborted" /\ UNCHANGED i
       ELSE pc' = "loop" /\ i' = i + 1
    /\ UNCHANGED <<pageVars, pricingVars, formVars, appVars, store, clock, snap, seen, ops, stock_symbols, batch_id, owner,
                   progress_callback, callbacks, results, invoked, outcome, summary>>

\* lines 289-317: an exception raised anywhere in the try block of job i
HandleException(raise) ==
    /\ raise => progress_callback
    /\ pc = "except"
    /\ errors' = Append(errors, [stock_symbol |-> CurrentSymbol, error |-> "raised"])
    /\ store' = add_completed_stock(store, batch_id,
                    FailureResult(CurrentSymbol, "raised"), clock)
    /\ lastOp' = [op |-> "add_completed_stock", id |-> batch_id]
    /\ IF raise
       THEN pc' = "aborted" /\ UNCHANGED i
       ELSE pc' = "loop" /\ i' = i + 1
    /\ UNCHANGED <<pageVars, pricingVars, formVars, appVars, clock, snap, seen, ops, stock_symbols, batch_id, owner, progress_callback,
                   callbacks, results, invoked, outcome, summary>>

Finish_repeats(raise) ==
    /\ raise => progress_callback
    /\ pc = "loop"
    /\ i = Total
    /\ store' = complete_batch(store, batch_id, clock)
    /\ lastOp' = [op |-> "complete_batch", id |-> batch_id]
    /\ UNCHANGED <<pageVars, pricingVars, formVars, appVars, clock, snap, seen, ops, stock_symbols, batch_id, owner,
                   progress_callback, pc, i, callbacks, results, errors, invoked, outcome,
                   summary>>

\* lines 319-364
Finish(raise) ==
    /\ raise => progress_callback
    /\ pc = "loop"
    /\ i = Total
    /\ store' = complete_batch(store, batch_id, clock)
    /\ lastOp' = [op |-> "complete_batch", id |-> batch_id]
    /\ IF raise
       THEN pc' = "aborted" /\ UNCHANGED summary
       ELSE /\ pc' = "done"
            /\ summary' = [batch_id |-> batch_id,
                           success |-> TRUE,
                           total_stocks |-> Total,
                           successful_count |-> Cardinality(DOMAIN results),
                           failed_count |-> Len(errors),
                           success_rate |->
                               IF Total = 0 THEN 0
                               ELSE (Cardinality(DOMAIN results) * Full) \div Total]
    /\ UNCHANGED <<pageVars, pricingVars, formVars, appVars, clock, snap, seen, ops, stock_symbols, batch_id, owner, progress_callback, i,
                   callbacks, results, errors, invoked, outcome>>

StepValues == {None} \cup {{s} : s \in (-1)..(MaxSteps + 1)}

TotalStepsValues == {None} \cup {{t} : t \in (-1)..MaxSteps}

RunnerNext ==
    \/ RunInitBatch
    \/ \E raise \in BOOLEAN : JobStart(raise)
    \/ \E step \in StepValues, total_steps \in TotalStepsValues : StockProgress(step, total_steps)
    \/ \E kind \in {"success", "failure", "raises"}, raise \in BOOLEAN : JobReturns(kind, raise)
    \/ \E raise \in BOOLEAN : AfterJob(raise)
    \/ \E raise \in BOOLEAN : HandleException(raise)
    \/ \E raise \in BOOLEAN : Finish(raise)
    \/ Tick

Spec == RunnerInit /\ [][RunnerNext]_vars

\* ------------------------------------------------------- polling a running batch
\* run_batch_stock_analysis on its worker, and readers in other execution
\* contexts that poll the store for the batch id as the batch page does
\* (app.py lines 2165-2173): get_snapshot under the lock, then, later and
\* without the lock, the reads of the fields of what was returned.  Every
\* reader acts for a user; the batch belongs to 'owner'.
ReaderUser(r) == IF r % 2 = 1 THEN "alice" ELSE "bob"

\* the job (1-based) that is executing: its start update is written, its
\* result is not yet appended
JobExecuting == IF pc = "running" THEN i + 1 ELSE 0

PollInit ==
    /\ RunnerInit
    /\ Len(stock_symbols) = MaxJobs
    /\ ~progress_callback

PollSnapshot(r) ==
    /\ snap[r] = NoSnap
    /\ pc # "init"
    /\ snap' = [snap EXCEPT ![r] = get_snapshot(store, batch_id)]
    /\ seen' = [seen EXCEPT ![r] = [job |-> JobExecuting, fields |-> NoSnap]]
    /\ lastOp' = [op |-> "get_snapshot", id |-> batch_id]
    /\ UNCHANGED <<store, clock, ops, runnerVars, pageVars, pricingVars, formVars, appVars>>

ReadSnapshot(r) ==
    /\ snap[r] # NoSnap
    /\ seen[r].fields = NoSnap
    /\ seen' = [seen EXCEPT ![r].fields =
                   IF snap[r] = EmptyDict THEN EmptyDict
                   ELSE [current_index |-> Deref(store, snap[r]).progress_info.current_index,
                         completed_stocks |-> Deref(store, snap[r]).completed_stocks]]
    /\ lastOp' = NoOp
    /\ UNCHANGED <<store, clock, snap, ops, runnerVars, pageVars, pricingVars, formVars, appVars>>

RunnerStep ==
    \/ RunInitBatch
    \/ \E raise \in BOOLEAN : JobStart(raise)
    \/ \E step \in StepValues, total_steps \in TotalStepsValues : StockProgress(step, total_steps)
    \/ \E kind \in {"success", "failure", "raises"}, raise \in BOOLEAN : JobReturns(kind, raise)
    \/ \E raise \in BOOLEAN : AfterJob(raise)
    \/ \E raise \in BOOLEAN : HandleException(raise)
    \/ \E raise \in BOOLEAN : Finish(raise)

PollNext ==
    \/ RunnerStep
    \/ \E r \in Readers : PollSnapshot(r)
    \/ \E r \in Readers : ReadSnapshot(r)

SpecPoll == PollInit /\ [][PollNext]_vars

\* ------------------------------------------------------ batch page: admission
\* render_batch_analysis_page from the submitted form to the start of the
\* batch (app.py lines 1839-1929), one run of it per browser session, the
\* sessions running concurrently.  The nesting of lines 1891-1897 is read as
\*   if need_points > 0:
\*       if not try_deduct_points(...): error; return
\*       else: success
\*   else: info
\* The session has a logged-in user (line 1866; without one the debit is
\* skipped).  A call made in the try block of lines 1862-1899 returns or
\* raises; what it raises is caught at line 1900, logged, and the page goes on.
\* auth_manager.try_deduct_points is not among the sources; it is the atomic
\* compare-and-debit the specification requires of TryAdmit.  The loop that
\* follows (lines 2023-2149) is kept to its calls of run_stock_analysis.
PageSymbols == SeqsOf({"AAA"}, MaxJobs) \ {<<>>}

need_points_per_stock(symbols, points_per_stock) == points_per_stock

\* line 1873
need_points(symbols, points_per_stock) == Len(symbols) * points_per_stock

try_deduct_points(P, username, n) ==
    IF P[username] >= n
    THEN [ok |-> TRUE, points |-> [P EXCEPT ![username] = @ - n]]
    ELSE [ok |-> FALSE, points |-> P]

proceeds_always(need, ok) == TRUE

\* lines 1891-1899: the page goes on to start the batch
proceeds(need, ok) == need <= 0 \/ ok

AdmitInit ==
    /\ store = EmptyStore
    /\ clock = 0
    /\ snap = [r \in Readers |-> NoSnap]
    /\ seen = [r \in Readers |-> NoSnap]
    /\ lastOp = NoOp
    /\ ops = 0
    /\ stock_symbols = <<>>
    /\ batch_id = "batch_a"
    /\ owner = "alice"
    /\ progress_callback = FALSE
    /\ pc = "idle"
    /\ i = 0
    /\ callbacks = 0
    /\ results = EmptyDict
    /\ errors = <<>>
    /\ invoked = <<>>
    /\ outcome = <<>>
    /\ summary = EmptyDict
    /\ points \in [Users -> 0..MaxPoints]
    /\ points0 = points
    /\ \E who \in [Sessions -> Users] : page = [s \in Sessions |-> NewSession(who[s])]
    /\ pricing = DefaultPricing
    /\ quote = NoQuote
    /\ form = NoForm
    /\ restore = NoRestore
    /\ threads = NoThreads
    /\ config_file = NoConfigFile
    /\ license = NoLicense

form_submitted_unchecked(submitted, symbols) == submitted

\* batch_analysis_form.py lines 399 and 466-470: 'if submitted and stock_symbols'
form_submitted(submitted, symbols) == submitted /\ symbols # <<>>

\* the submit button was pressed: the form's check of the symbol list, then
\* lines 1839-1873: the symbols are validated and the cost is quoted;
\* points_per_stock is what get_analysis_points returned
SubmitForm(s, symbols, valid, points_per_stock) ==
    /\ page[s].pc = "form"
    /\ ~page[s].batch_analysis_running
    /\ page' = [page EXCEPT ![s] =
                   IF ~form_submitted(TRUE, symbols)
                   THEN [@ EXCEPT !.pc = "empty", !.stock_symbols = symbols]
                   ELSE IF valid
                   THEN [@ EXCEPT !.pc = "deduct",
                                  !.stock_symbols = symbols,
                                  !.points_per_stock = points_per_stock,
                                  !.need_points = need_points(symbols, points_per_stock)]
                   ELSE [@ EXCEPT !.pc = "invalid", !.stock_symbols = symbols]]
    /\ UNCHANGED <<store, clock, snap, seen, lastOp, ops, runnerVars, points, points0,
                   pricingVars, formVars, appVars>>

\* lines 1862-1929: the debit, then either the return or the start of the
\* batch; 'raises': the call raises instead of returning, nothing is debited
Deduct(s, raises) ==
    /\ page[s].pc = "deduct"
    /\ LET need == page[s].need_points
           call == IF ~raises /\ need > 0
                   THEN try_deduct_points(points, page[s].user, need)
                   ELSE [ok |-> FALSE, points |-> points]
       IN  /\ points' = call.points
           /\ IF raises \/ proceeds(need, call.ok)
              THEN \E id \in BatchIds :
                      page' = [page EXCEPT ![s] =
                                  [@ EXCEPT !.pc = "loop",
                                            !.deducted = call.ok,
                                            !.raised = raises,
                                            !.debits = IF call.ok THEN @ + 1 ELSE @,
                                            !.balance_before = points[page[s].user],
                                            !.balance_after = call.points[page[s].user],
                                            !.batch_analysis_running = TRUE,
                                            !.current_batch_id = {id}]]
              ELSE page' = [page EXCEPT ![s] =
                               [@ EXCEPT !.pc = "rejected",
                                         !.balance_before = points[page[s].user],
                                         !.balance_after = call.points[page[s].user]]]
    /\ UNCHANGED <<store, clock, snap, seen, lastOp, ops, runnerVars, points0, pricingVars, formVars, appVars>>

\* lines 2023-2135: one turn of the page's loop, one call of run_stock_analysis
PageJob(s) ==
    /\ page[s].pc = "loop"
    /\ page[s].jobs_run < Len(page[s].stock_symbols)
    /\ page' = [page EXCEPT ![s].jobs_run = @ + 1]
    /\ UNCHANGED <<store, clock, snap, seen, lastOp, ops, runnerVars, points, points0,
                   pricingVars, formVars, appVars>>

\* lines 2137-2149
PageFinish(s) ==
    /\ page[s].pc = "loop"
    /\ page[s].jobs_run = Len(page[s].stock_symbols)
    /\ page' = [page EXCEPT ![s].pc = "finished", ![s].batch_analysis_running = FALSE]
    /\ UNCHANGED <<store, clock, snap, seen, lastOp, ops, runnerVars, points, points0,
                   pricingVars, formVars, appVars>>

AdmitNext ==
    \/ \E s \in Sessions, symbols \in PageSymbols \cup {<<>>}, valid \in BOOLEAN,
          pps \in 0..MaxPoints :
          SubmitForm(s, symbols, valid, pps)
    \/ \E s \in Sessions, raises \in BOOLEAN : Deduct(s, raises)
    \/ \E s \in Sessions : PageJob(s)
    \/ \E s \in Sessions : PageFinish(s)

SpecAdmit == AdmitInit /\ [][AdmitNext]_vars

\* -------------------------------------------- batch page: the loop's progress
\* The loop the batch page runs itself (app.py lines 2005-2135): the progress
\* it reports while run_stock_analysis calls single_cb(msg, s, t), in one
\* session that has been admitted.
\* lines 2037-2043: fine, in units of 1/Fact(MaxSteps)
single_cb_fine(s, t) ==
    IF s # None /\ t # None /\ t # {0}
    THEN LET sv == CHOOSE x \in s : TRUE
             tv == CHOOSE x \in t : TRUE
             ratio == IF tv > 0 THEN (sv * Fact(MaxSteps)) \div tv
                      ELSE ((-sv) * Fact(MaxSteps)) \div (-tv)
         IN  Max(0, Min(Fact(MaxSteps), ratio))
    ELSE 0

\* lines 2012-2013 and 2054: ((index - 1) + fine) / max(1, total) * 100
update_ui_progress(index, fine, total) ==
    (((index - 1) * Fact(MaxSteps) + fine) * Fact(MaxJobs)) \div Max(1, total)

InlineInit ==
    /\ store = EmptyStore
    /\ clock = 0
    /\ snap = [r \in Readers |-> NoSnap]
    /\ seen = [r \in Readers |-> NoSnap]
    /\ lastOp = NoOp
    /\ ops = 0
    /\ stock_symbols = <<>>
    /\ batch_id = "batch_a"
    /\ owner = "alice"
    /\ progress_callback = FALSE
    /\ pc = "idle"
    /\ i = 0
    /\ callbacks = 0
    /\ results = EmptyDict
    /\ errors = <<>>
    /\ invoked = <<>>
    /\ outcome = <<>>
    /\ summary = EmptyDict
    /\ points = [u \in Users |-> 0]
    /\ points0 = points
    /\ \E symbols \in PageSymbols :
           page = [s \in Sessions |->
                      IF s = 1
                      THEN [NewSession("alice") EXCEPT !.pc = "loop",
                                                       !.stock_symbols = symbols,
                                                       !.batch_analysis_running = TRUE]
                      ELSE NewSession("alice")]
    /\ pricing = DefaultPricing
    /\ quote = NoQuote
    /\ form = NoForm
    /\ restore = NoRestore
    /\ threads = NoThreads
    /\ config_file = NoConfigFile
    /\ license = NoLicense

\* lines 2036-2055: run_stock_analysis reports progress on the current job
SingleCb(s, step, total_steps) ==
    /\ page[s].pc = "loop"
    /\ page[s].jobs_run < Len(page[s].stock_symbols)
    /\ LET idx == page[s].jobs_run + 1
           total == Len(page[s].stock_symbols)
           fine == single_cb_fine(step, total_steps)
       IN  page' = [page EXCEPT ![s].progress_data =
                       {[type |-> "stock_progress",
                         step |-> step,
                         total_steps |-> total_steps,
                         current_index |-> idx,
                         total_stocks |-> total,
                         progress |-> update_ui_progress(idx, fine, total)]}]
    /\ UNCHANGED <<store, clock, snap, seen, lastOp, ops, runnerVars, points, points0,
                   pricingVars, formVars, appVars>>

\* lines 2023-2129: one turn of the loop.  run_stock_analysis returns success,
\* returns failure or raises; the item is appended to completed_items and to
\* st.session_state.completed_stocks, and progress_callback, called with
\* type 'stock_completed', appends its result to completed_stocks as well
\* (lines 1960-1984); then the progress is rendered, outside the try block.
InlineJob(s, kind, render_raises) ==
    /\ page[s].pc = "loop"
    /\ page[s].jobs_run < Len(page[s].stock_symbols)
    /\ LET stock_symbol == page[s].stock_symbols[page[s].jobs_run + 1]
           item == CASE kind = "success" -> SuccessResult(stock_symbol)
                     [] kind = "failure" -> FailureResult(stock_symbol, "returned")
                     [] OTHER -> FailureResult(stock_symbol, "raised")
       IN  page' = [page EXCEPT
                       ![s].completed_items = Append(@, item),
                       ![s].completed_stocks = @ \o <<item, item>>,
                       ![s].jobs_run = IF render_raises THEN @ ELSE @ + 1,
                       ![s].pc = IF render_raises THEN "aborted" ELSE @]
    /\ UNCHANGED <<store, clock, snap, seen, lastOp, ops, runnerVars, points, points0,
                   pricingVars, formVars, appVars>>

\* lines 2138-2146, without the results and errors it also lists
batch_analysis_results(completed_items, total) ==
    LET successful == Cardinality({k \in DOMAIN completed_items : completed_items[k].success})
    IN  [total_stocks |-> total,
         successful_count |-> successful,
         failed_count |->
             Cardinality({k \in DOMAIN completed_items : ~completed_items[k].success}),
         success_rate |-> (successful * Full) \div Max(1, total)]

\* lines 2137-2149
InlineFinish(s) ==
    /\ page[s].pc = "loop"
    /\ page[s].jobs_run = Len(page[s].stock_symbols)
    /\ page' = [page EXCEPT
                   ![s].batch_analysis_results =
                       {batch_analysis_results(page[s].completed_items,
                                               Len(page[s].stock_symbols))},
                   ![s].batch_analysis_running = FALSE,
                   ![s].pc = "finished"]
    /\ UNCHANGED <<store, clock, snap, seen, lastOp, ops, runnerVars, points, points0,
                   pricingVars, formVars, appVars>>

InlineNext ==
    \/ \E s \in Sessions, step \in StepValues, total_steps \in TotalStepsValues :
          SingleCb(s, step, total_steps)
    \/ \E s \in Sessions, kind \in {"success", "failure", "raises"},
          render_raises \in BOOLEAN : InlineJob(s, kind, render_raises)
    \/ \E s \in Sessions : InlineFinish(s)

SpecInline == InlineInit /\ [][InlineNext]_vars

\* The loop under the assumption that every call of run_stock_analysis
\* returns or raises: the page keeps taking the turns of its loop.
SpecInlineLive ==
    /\ InlineInit
    /\ [][InlineNext]_vars
    /\ WF_vars(\E s \in Sessions, kind \in {"success", "failure", "raises"},
                  render_raises \in BOOLEAN : InlineJob(s, kind, render_raises))
    /\ WF_vars(\E s \in Sessions : InlineFinish(s))

\* ------------------------------------------------------ the points balances
\* The two writers of a user's points: the administrator's edit form
\* (member_management.py) and the debit of the batch page.
UpdateUser_unclamped(selected, new_points, delta) ==
    /\ points' = [points EXCEPT ![selected] = new_points + delta]
    /\ lastOp' = [op |-> "update_user", id |-> selected,
                  new_points |-> new_points, delta |-> delta]
    /\ UNCHANGED <<store, clock, snap, seen, ops, runnerVars, points0, page,
                   pricingVars, formVars, appVars>>

\* member_management.py lines 154-156 and 186-194: the form is saved with
\* a value new_points >= 0 and a signed delta
UpdateUser(selected, new_points, delta) ==
    /\ points' = [points EXCEPT ![selected] = Max(0, new_points + delta)]
    /\ lastOp' = [op |-> "update_user", id |-> selected,
                  new_points |-> new_points, delta |-> delta]
    /\ UNCHANGED <<store, clock, snap, seen, ops, runnerVars, points0, page,
                   pricingVars, formVars, appVars>>

\* app.py lines 1891-1896: a batch that needs n > 0 points is submitted
DeductPoints(username, n) ==
    /\ points' = try_deduct_points(points, username, n).points
    /\ lastOp' = [op |-> "try_deduct_points", id |-> username,
                  new_points |-> n, delta |-> 0]
    /\ UNCHANGED <<store, clock, snap, seen, ops, runnerVars, points0, page,
                   pricingVars, formVars, appVars>>

SpecBalance ==
    /\ AdmitInit
    /\ [][\/ \E u \in Users, new_points \in 0..MaxPoints, delta \in (-MaxPoints - 1)..MaxPoints :
                UpdateUser(u, new_points, delta)
          \/ \E u \in Users, n \in 1..(MaxJobs * MaxPoints) : DeductPoints(u, n)]_vars

\* ------------------------------------------------------ batch page: the quote
\* The cost of a batch as the batch page computes it (app.py lines 1868-1873)
\* from the configuration in memory, for any configuration, any depth of the
\* slider and any provider and model of the session.
CustomPricing ==
    [config |-> <<[provider |-> <<"dashscope">>, model |-> <<"qwen">>, points |-> 3],
                  [provider |-> <<"dashscope">>, model |-> <<"qwen", "-turbo">>, points |-> 4]>>,
     research_depth_points |-> [d \in 1..5 |-> 2 * d],
     points_toggle |-> DEFAULT_POINTS_TOGGLE_CONFIG]

PricingConfigs ==
    {[config |-> c.config, research_depth_points |-> d.research_depth_points,
      points_toggle |-> [enable_research_depth_points |-> t1, enable_model_points |-> t2]] :
        c \in {DefaultPricing, CustomPricing}, d \in {DefaultPricing, CustomPricing},
        t1 \in BOOLEAN, t2 \in BOOLEAN}

Providers == {<<"dashscope">>, <<" ", "DashScope">>, <<"OpenRouter">>, <<"google">>, << >>}

Models == {<<"qwen", "-turbo">>, <<"qwen", "-plus", "-latest">>, <<"gpt", "-4">>, <<"gpt", "-4o">>,
           << >>}

QuoteInit ==
    /\ store = EmptyStore
    /\ clock = 0
    /\ snap = [r \in Readers |-> NoSnap]
    /\ seen = [r \in Readers |-> NoSnap]
    /\ lastOp = NoOp
    /\ ops = 0
    /\ stock_symbols = <<>>
    /\ batch_id = "batch_a"
    /\ owner = "alice"
    /\ progress_callback = FALSE
    /\ pc = "idle"
    /\ i = 0
    /\ callbacks = 0
    /\ results = EmptyDict
    /\ errors = <<>>
    /\ invoked = <<>>
    /\ outcome = <<>>
    /\ summary = EmptyDict
    /\ points = [u \in Users |-> 0]
    /\ points0 = points
    /\ page = [s \in Sessions |-> NewSession("alice")]
    /\ pricing \in PricingConfigs
    /\ quote = NoQuote
    /\ form = NoForm
    /\ restore = NoRestore
    /\ threads = NoThreads
    /\ config_file = NoConfigFile
    /\ license = NoLicense

\* app.py lines 1868-1873
QuoteBatch(symbols, research_depth, llm_provider, llm_model) ==
    /\ LET points_per_stock ==
               get_analysis_points(pricing, research_depth, llm_provider, llm_model)
       IN  quote' = [stock_symbols |-> symbols,
                     research_depth |-> research_depth,
                     llm_provider |-> llm_provider,
                     llm_model |-> llm_model,
                     points_per_stock |-> points_per_stock,
                     need_points |-> need_points(symbols, points_per_stock),
                     model_points |->
                         IF pricing.points_toggle.enable_model_points
                         THEN {get_model_points(pricing.config, llm_provider, llm_model)}
                         ELSE None]
    /\ UNCHANGED <<store, clock, snap, seen, lastOp, ops, runnerVars, pageVars, pricing, formVars, appVars>>

QuoteNext ==
    \E symbols \in PageSymbols, research_depth \in 1..5,
       llm_provider \in Providers, llm_model \in Models :
        QuoteBatch(symbols, research_depth, llm_provider, llm_model)

SpecQuote == QuoteInit /\ [][QuoteNext]_vars

\* ------------------------------------------------ batch form: the symbol list
\* The text typed into the form: up to MaxSymbols items, each followed by a
\* comma or a newline except the last.
Markets == {"A", "HK", "US", "other"}

Candidates ==
    { <<"0", "0", "0", "0", "0", "7">>,           \* six digits
      <<"0", "7", "0", "0">>,                     \* four digits
      <<"7", "0", "0">>,                          \* three digits
      <<"0", "7", "0", "0", ".", "h", "k">>,      \* lower-case suffix
      <<"a", "k">>,                               \* lower-case letters
      <<"a", "a", "a", "a", "a", "a">>,           \* six letters
      <<" ", "A", " ">>,                          \* padded
      <<" ">>,                                    \* blank
      << >> }

FormInit ==
    /\ store = EmptyStore
    /\ clock = 0
    /\ snap = [r \in Readers |-> NoSnap]
    /\ seen = [r \in Readers |-> NoSnap]
    /\ lastOp = NoOp
    /\ ops = 0
    /\ stock_symbols = <<>>
    /\ batch_id = "batch_a"
    /\ owner = "alice"
    /\ progress_callback = FALSE
    /\ pc = "idle"
    /\ i = 0
    /\ callbacks = 0
    /\ results = EmptyDict
    /\ errors = <<>>
    /\ invoked = <<>>
    /\ outcome = <<>>
    /\ summary = EmptyDict
    /\ points = [u \in Users |-> 0]
    /\ points0 = points
    /\ page = [s \in Sessions |-> NewSession("alice")]
    /\ pricing = DefaultPricing
    /\ quote = NoQuote
    /\ restore = NoRestore
    /\ threads = NoThreads
    /\ config_file = NoConfigFile
    /\ license = NoLicense
    /\ \E pieces \in SeqsOf(Candidates, MaxSymbols), market_type \in Markets :
       \E seps \in [1..(Len(pieces) - 1) -> {",", "LF"}] :
           LET RECURSIVE Join(_, _)
               Join(ps, ss) == IF ps = << >> THEN << >>
                               ELSE IF Len(ps) = 1 THEN ps[1]
                               ELSE ps[1] \o <<ss[1]>> \o Join(Tail(ps), Tail(ss))
           IN  form = [pieces |-> pieces, stock_text |-> Join(pieces, seps),
                       market_type |-> market_type, parsed |-> None]

\* batch_analysis_form.py: the form is submitted and its text parsed
ParseSymbols ==
    /\ form.parsed = None
    /\ form' = [form EXCEPT !.parsed = {parse_stock_symbols(form.stock_text, form.market_type)}]
    /\ UNCHANGED <<store, clock, snap, seen, lastOp, ops, runnerVars, pageVars, pricingVars, appVars>>

FormNext == ParseSymbols

SpecParse == FormInit /\ [][FormNext]_vars

\* ------------------------------------------------- app.py: restoring an analysis
\* A user name and an id are sequences of pieces of text; "_" is the
\* underscore.  The ids that sessions have created, each with the user it
\* was created for (lines 1270-1274):
\* analysis_{username}_{uuid.uuid4().hex[:8]}_{timestamp}
AnalysisIds ==
    LET analysis_id(username, hex) ==
            <<"analysis", "_">> \o username \o <<"_", hex, "_", "20260101", "_", "120000">>
    IN  {[owner |-> u, id |-> analysis_id(u, hex)] :
            u \in {<<"bob">>, <<"bob", "_", "x">>, <<"alice">>},
            hex \in {"0a1b2c3d", "4e5f6a7b"}}

\* lines 353 and 391: latest_id.startswith(f"analysis_{username}_")
owned_by(id, username) == startswith(id, <<"analysis", "_">> \o username \o <<"_">>)

\* a logged-in session; any of the ids may have been created and persisted
RestoreInit ==
    /\ store = EmptyStore
    /\ clock = 0
    /\ snap = [r \in Readers |-> NoSnap]
    /\ seen = [r \in Readers |-> NoSnap]
    /\ lastOp = NoOp
    /\ ops = 0
    /\ stock_symbols = <<>>
    /\ batch_id = "batch_a"
    /\ owner = "alice"
    /\ progress_callback = FALSE
    /\ pc = "idle"
    /\ i = 0
    /\ callbacks = 0
    /\ results = EmptyDict
    /\ errors = <<>>
    /\ invoked = <<>>
    /\ outcome = <<>>
    /\ summary = EmptyDict
    /\ points = [u \in Users |-> 0]
    /\ points0 = points
    /\ page = [s \in Sessions |-> NewSession("alice")]
    /\ pricing = DefaultPricing
    /\ quote = NoQuote
    /\ form = NoForm
    /\ threads = NoThreads
    /\ config_file = NoConfigFile
    /\ license = NoLicense
    /\ \E u \in {c.owner : c \in AnalysisIds}, created \in SUBSET AnalysisIds :
           restore = [NoRestore EXCEPT !.username = u, !.created = created]

\* lines 341-378: the latest analysis is offered to the session as latest_id
RestoreResults(latest) ==
    /\ latest \in restore.created
    /\ restore.analysis_results = None
    /\ restore' = IF ~owned_by(latest.id, restore.username) THEN restore
                  ELSE [restore EXCEPT !.analysis_results = {latest.id},
                                       !.current_analysis_id = {latest.id},
                                       !.analysis_running = FALSE]
    /\ UNCHANGED <<store, clock, snap, seen, lastOp, ops, runnerVars, pageVars,
                   pricingVars, formVars, threads, config_file, license>>

\* lines 380-417: the persisted id is offered to the session
RestoreState(persistent, actual_status) ==
    /\ persistent \in restore.created
    /\ restore' =
           IF ~owned_by(persistent.id, restore.username)
           THEN [restore EXCEPT !.analysis_running = FALSE,
                                !.current_analysis_id = None,
                                !.analysis_results = None]
           ELSE CASE actual_status = "running" ->
                         [restore EXCEPT !.analysis_running = TRUE,
                                         !.current_analysis_id = {persistent.id}]
                  [] actual_status \in {"completed", "failed"} ->
                         [restore EXCEPT !.analysis_running = FALSE,
                                         !.current_analysis_id = {persistent.id}]
                  [] OTHER ->
                         [restore EXCEPT !.analysis_running = FALSE,
                                         !.current_analysis_id = None]
    /\ UNCHANGED <<store, clock, snap, seen, lastOp, ops, runnerVars, pageVars,
                   pricingVars, formVars, threads, config_file, license>>

SpecRestore ==
    /\ RestoreInit
    /\ [][\/ \E latest \in AnalysisIds : RestoreResults(latest)
          \/ \E persistent \in AnalysisIds,
                actual_status \in {"running", "completed", "failed", "not_found"} :
                RestoreState(persistent, actual_status)]_vars

\* ------------------------------------------ the store called from several threads
\* Threads that call add_completed_stock and update_progress on batches that
\* exist.  A call takes _lock, does its reads and writes of _batches one
\* after the other, and leaves the with block.  lock is the set of threads
\* inside a with block; of[t] is where thread t is in its call.  The n-th
\* call appends a result with analysis_time n, or updates current_index and
\* progress to n.
ThreadsInit ==
    /\ store = init_batch(init_batch(EmptyStore, "batch_a", MaxJobs, 0, 1),
                          "batch_b", MaxJobs, 0, 2)
    /\ clock = 0
    /\ snap = [r \in Readers |-> NoSnap]
    /\ seen = [r \in Readers |-> NoSnap]
    /\ lastOp = NoOp
    /\ ops = 0
    /\ stock_symbols = <<>>
    /\ batch_id = "batch_a"
    /\ owner = "alice"
    /\ progress_callback = FALSE
    /\ pc = "idle"
    /\ i = 0
    /\ callbacks = 0
    /\ results = EmptyDict
    /\ errors = <<>>
    /\ invoked = <<>>
    /\ outcome = <<>>
    /\ summary = EmptyDict
    /\ points = [u \in Users |-> 0]
    /\ points0 = points
    /\ page = [s \in Sessions |-> NewSession("alice")]
    /\ pricing = DefaultPricing
    /\ quote = NoQuote
    /\ form = NoForm
    /\ restore = NoRestore
    /\ config_file = NoConfigFile
    /\ license = NoLicense
    /\ threads = [lock |-> {},
                  of |-> [t \in 1..NumThreads |->
                             [pc |-> "idle", op |-> "none", id |-> "", n |-> 0,
                              read |-> <<>>, done |-> {}]]]

\* thread t calls add_completed_stock(id, result) or update_progress(id, info)
ThreadCall(t, op, id) ==
    /\ threads.of[t].pc = "idle"
    /\ ops < MaxOps
    /\ ops' = ops + 1
    /\ threads' = [threads EXCEPT !.of[t] = [@ EXCEPT !.pc = "acquire", !.op = op,
                                                      !.id = id, !.n = ops + 1]]
    /\ UNCHANGED <<store, clock, snap, seen, lastOp, runnerVars, pageVars, pricingVars,
                   formVars, restore, config_file, license>>

Acquire_not_exclusive(t) ==
    /\ threads.of[t].pc = "acquire"
    /\ threads' = [threads EXCEPT !.lock = @ \cup {t}, !.of[t].pc = "first"]
    /\ UNCHANGED <<store, clock, snap, seen, lastOp, ops, runnerVars, pageVars,
                   pricingVars, formVars, restore, config_file, license>>

\* 'with _lock:' is entered: no other thread is inside a with block
Acquire(t) ==
    /\ threads.of[t].pc = "acquire"
    /\ threads.lock \subseteq {t}
    /\ threads' = [threads EXCEPT !.lock = @ \cup {t}, !.of[t].pc = "first"]
    /\ UNCHANGED <<store, clock, snap, seen, lastOp, ops, runnerVars, pageVars,
                   pricingVars, formVars, restore, config_file, license>>

\* lines 34-47: the statements of the with block, and its exit after the last
Body(t) ==
    LET call == threads.of[t]
        e == store.batches[call.id]
        leave == [threads EXCEPT !.lock = @ \ {t},
                                 !.of[t] = [@ EXCEPT !.pc = "idle", !.read = <<>>,
                                                     !.done = @ \cup {[op |-> call.op,
                                                                       id |-> call.id,
                                                                       n |-> call.n]}]]
    IN  /\ call.pc \in {"first", "second"}
        /\ CASE call.id \notin DOMAIN store.batches ->
                    threads' = leave /\ UNCHANGED store
             [] call.op = "add_completed_stock" /\ call.pc = "first" ->
                    /\ threads' = [threads EXCEPT !.of[t].pc = "second",
                                                  !.of[t].read = store.lists[e.completed_stocks]]
                    /\ UNCHANGED store
             [] call.op = "add_completed_stock" /\ call.pc = "second" ->
                    /\ store' = [store EXCEPT
                                    !.lists[e.completed_stocks] =
                                        Append(call.read, [stock_symbol |-> "AAA",
                                                           success |-> TRUE,
                                                           analysis_time |-> call.n]),
                                    !.batches[call.id].last_update = clock]
                    /\ threads' = leave
             [] call.op = "update_progress" /\ call.pc = "first" ->
                    /\ store' = [store EXCEPT !.dicts[e.progress_info].current_index = call.n]
                    /\ threads' = [threads EXCEPT !.of[t].pc = "second"]
             [] OTHER ->
                    /\ store' = [store EXCEPT !.dicts[e.progress_info].progress = call.n,
                                              !.batches[call.id].last_update = clock]
                    /\ threads' = leave
        /\ UNCHANGED <<clock, snap, seen, lastOp, ops, runnerVars, pageVars, pricingVars,
                       formVars, restore, config_file, license>>

\* every thread that is in a call keeps running
SpecThreads ==
    /\ ThreadsInit
    /\ [][\E t \in 1..NumThreads :
            \/ \E op \in {"add_completed_stock", "update_progress"}, id \in BatchIds :
                  ThreadCall(t, op, id)
            \/ Acquire(t)
            \/ Body(t)]_vars
    /\ \A t \in 1..NumThreads : WF_vars(Acquire(t)) /\ WF_vars(Body(t))

\* ------------------------------------------------------------------ claims
HasEntry(S, id) == id \in DOMAIN S.batches

Range(f) == {f[x] : x \in DOMAIN f}

\* the batch of run_batch_stock_analysis, as the store holds it
RunEntry == store.batches[batch_id]

CompletedStocks ==
    IF HasEntry(store, batch_id) THEN store.lists[RunEntry.completed_stocks] ELSE <<>>

ProgressInfo == store.dicts[RunEntry.progress_info]

JobFailed(kind) == kind \in {"failure", "raises"}

\* C1 (as claimed): in every reachable state of a run, whatever the jobs and
\* the progress consumer do, completed_stocks[k].stock_symbol equals
\* stock_symbols[k] for every k up to len(completed_stocks).
C1_Ordering ==
    \A k \in 1..Len(CompletedStocks) :
        k <= Total /\ CompletedStocks[k].stock_symbol = stock_symbols[k]

\* C2 (as claimed): once the call is over, for every job that returned
\* failure or raised, every later job of the list was invoked and has a
\* result in completed_stocks; no failure ends the loop.
C2_FailureNeverEndsLoop ==
    pc \in {"done", "aborted"} =>
        \A j \in 1..Len(outcome) :
            JobFailed(outcome[j]) =>
                \A m \in (invoked[j] + 1)..Total :
                    /\ m \in Range(invoked)
                    /\ \E k \in 1..Len(CompletedStocks) :
                           CompletedStocks[k].stock_symbol = stock_symbols[m]

\* C3 (as claimed): whenever the batch's status in the store is 'completed',
\* len(completed_stocks) equals total_stocks.
C3_CompletedCount ==
    (HasEntry(store, batch_id) /\ RunEntry.status = "completed")
        => Len(CompletedStocks) = ProgressInfo.total_stocks

\* C5 (as claimed): while the batch is 'running', every write of the run
\* leaves 'progress' at least as large as it was.
C5_ProgressNonDecreasing ==
    [][(HasEntry(store, batch_id) /\ RunEntry.status = "running"
          /\ RunEntry'.status = "running")
          => ProgressInfo'.progress >= ProgressInfo.progress]_vars

Terminal == {"completed", "failed"}

\* C4 (as claimed): over any sequence of store operations on one batch id,
\* init_batch included, an entry whose status is 'completed' or 'failed'
\* never has status 'running' after the next operation.
C4_TerminalNeverBackToRunning ==
    [][\A b \in BatchIds :
          (HasEntry(store, b) /\ store.batches[b].status \in Terminal /\ HasEntry(store', b))
              => store'.batches[b].status # "running"]_vars

\* C4 (amended): update_progress, add_completed_stock, set_status,
\* complete_batch and fail_batch never move an entry from 'completed' or
\* 'failed' to 'running'; the only operation after which a terminal entry is
\* 'running' again is init_batch on that id, which replaces the entry.
C4_OnlyInitBatchRestarts ==
    [][\A b \in BatchIds :
          (HasEntry(store, b) /\ store.batches[b].status \in Terminal
             /\ HasEntry(store', b) /\ store'.batches[b].status = "running")
              => lastOp' = [op |-> "init_batch", id |-> b]]_vars

\* a failed entry has just been through update_progress and is still failed
C4_Witness ==
    \E b \in BatchIds :
        /\ HasEntry(store, b)
        /\ store.batches[b].status = "failed"
        /\ lastOp = [op |-> "update_progress", id |-> b]

MutatorOps ==
    {"update_progress", "add_completed_stock", "set_status", "complete_batch", "fail_batch"}

\* C9 (as claimed): what get_snapshot returned does not change when the store
\* is later mutated by update_progress, add_completed_stock, set_status,
\* complete_batch or fail_batch, and mutating the returned value does not
\* change the store.
C9_SnapshotIsACopy ==
    [][/\ \A r \in Readers :
             (snap[r] # NoSnap /\ snap'[r] = snap[r] /\ lastOp'.op \in MutatorOps)
                 => SnapshotValue(r)' = SnapshotValue(r)
       /\ (lastOp'.op = "mutate_snapshot" => StoreValue' = StoreValue)]_vars

\* C6 (as claimed): a poll of the batch made for a user other than its owner
\* never yields the batch's progress snapshot.
C6_CrossUserIsolation ==
    \A r \in Readers :
        (ReaderUser(r) # owner /\ snap[r] # NoSnap) => snap[r] = EmptyDict

TookDuringJob(r, job) == seen[r] # NoSnap /\ seen[r].job = job /\ seen[r].fields # NoSnap

\* C10 (as claimed): in a 3-job batch, every reader that called get_snapshot
\* while job 2 was executing and then read the fields of what it received
\* observes current_index = 2 and a completed_stocks prefix of length 1, the
\* same for any two such readers.
C10_NoTornReads ==
    Total = 3 =>
        \A r1 \in Readers, r2 \in Readers :
            (TookDuringJob(r1, 2) /\ TookDuringJob(r2, 2)) =>
                /\ seen[r1].fields # EmptyDict
                /\ seen[r1].fields.current_index = 2
                /\ Len(seen[r1].fields.completed_stocks) = 1
                /\ seen[r1].fields.completed_stocks = seen[r2].fields.completed_stocks

SessionsOf(u) == {s \in Sessions : page[s].user = u}

Decided(s) == page[s].pc \in {"rejected", "loop", "finished"}

BatchCost(s) == Len(page[s].stock_symbols) * page[s].points_per_stock

ConcurrentAtExactBalance(u) ==
    /\ Cardinality(SessionsOf(u)) >= 2
    /\ points0[u] > 0
    /\ \A s \in SessionsOf(u) :
          Decided(s) /\ ~page[s].raised /\ BatchCost(s) = points0[u]

PolledContent(S) == Deref(S, get_snapshot(S, batch_id))

\* C11: once the run has called complete_batch for its batch, no step of the
\* run writes the store for that batch again: get_snapshot of the batch
\* returns the same content after every later step.
C11_StableAfterCompletion ==
    [][(HasEntry(store, batch_id) /\ RunEntry.status = "completed")
          => PolledContent(store') = PolledContent(store)]_vars

\* the run is over, the batch is completed and time has passed since
C11_Witness ==
    /\ pc \in {"done", "aborted"}
    /\ HasEntry(store, batch_id)
    /\ RunEntry.status = "completed"
    /\ Len(CompletedStocks) > 0
    /\ clock > RunEntry.last_update

\* what the store holds for id b, nested objects included
EntryValue(S, b) == Deref(S, S.batches[b])

\* C12 (as claimed): once an entry's status is 'completed' or 'failed', no
\* update_progress, add_completed_stock, set_status, complete_batch or
\* fail_batch call on that id changes any field of it.
C12_TerminalImmutable ==
    [][\A b \in BatchIds :
          (/\ HasEntry(store, b)
           /\ store.batches[b].status \in Terminal
           /\ lastOp'.op \in MutatorOps
           /\ lastOp'.id = b)
              => EntryValue(store', b) = EntryValue(store, b)]_vars

\* C13: update_progress, add_completed_stock, set_status, complete_batch and
\* fail_batch called with an id that has no entry return normally, create no
\* entry and leave every existing entry as it was.
C13_UnknownBatchNoOp ==
    [][(lastOp'.op \in MutatorOps /\ ~HasEntry(store, lastOp'.id))
          => /\ DOMAIN store'.batches = DOMAIN store.batches
             /\ \A b \in DOMAIN store.batches :
                    EntryValue(store', b) = EntryValue(store, b)]_vars

\* a mutator has just been called for an id without entry while the other id
\* has an entry with a result
C13_Witness ==
    /\ lastOp.op \in MutatorOps
    /\ ~HasEntry(store, lastOp.id)
    /\ \E b \in DOMAIN store.batches : Len(EntryValue(store, b).completed_stocks) > 0

\* the entry init_batch(batch_id, n) creates at time now
FreshEntry(n, now) ==
    [progress_info |-> [current_stock |-> "",
                        current_index |-> 0,
                        total_stocks |-> n,
                        progress |-> 0,
                        status |-> "preparing",
                        start_time |-> now],
     completed_stocks |-> <<>>,
     status |-> "running",
     last_update |-> now]

\* the step is the call init_batch(b, n)
IsInitBatch(b, n) ==
    /\ lastOp' = [op |-> "init_batch", id |-> b]
    /\ store' = Collect(init_batch(store, b, n, clock, FreshRef), snap)

\* C14: init_batch(b, n) on an id that already has an entry, whatever its
\* state, leaves an entry equal to a freshly created one: completed_stocks
\* empty, current_index 0, progress 0, total_stocks n, status 'running'.
C14_ReinitOverwrites ==
    [][\A b \in BatchIds, n \in 0..MaxJobs :
          (HasEntry(store, b) /\ IsInitBatch(b, n))
              => EntryValue(store', b) = FreshEntry(n, clock)]_vars

\* init_batch has just replaced an entry: a reader still holds the entry it
\* replaced, with its result, and the new entry is empty
C14_Witness ==
    /\ lastOp.op = "init_batch"
    /\ ops = 4
    /\ EntryValue(store, lastOp.id).completed_stocks = <<>>
    /\ \E r \in Readers :
          /\ "completed_stocks" \in DOMAIN snap[r]
          /\ snap[r].completed_stocks \notin EntryRefs(store)
          /\ Len(store.lists[snap[r].completed_stocks]) > 0

\* number of invoked jobs whose run_stock_analysis call ended as 'kind'
CountOutcome(kind) == Cardinality({j \in 1..Len(outcome) : outcome[j] = kind})

\* C15 (as claimed): for every job list, repeated symbols included, and every
\* outcome of the jobs, the summary returned by the run has successful_count
\* equal to the number of jobs that succeeded, failed_count equal to the
\* number of jobs that failed, and the two add up to total_stocks.
C15_SummaryCounts ==
    pc = "done" =>
        /\ summary.successful_count = CountOutcome("success")
        /\ summary.failed_count = Total - CountOutcome("success")
        /\ summary.successful_count + summary.failed_count = summary.total_stocks

\* C16: run_stock_analysis is invoked for the jobs in the submitted order, at
\* most one job is executing at any time, and when job m is invoked every
\* earlier job has its result in completed_stocks.
C16_StrictlySequential ==
    /\ \A j \in 1..(Len(invoked) - 1) : invoked[j] < invoked[j + 1]
    /\ Len(invoked) - Len(outcome) = (IF pc = "running" THEN 1 ELSE 0)
    /\ pc = "running" => invoked[Len(invoked)] = i + 1
    /\ \A j \in 1..Len(invoked) :
          /\ Len(CompletedStocks) >= invoked[j] - 1
          /\ \A k \in 1..(invoked[j] - 1) :
                \E p \in 1..Len(CompletedStocks) :
                    CompletedStocks[p].stock_symbol = stock_symbols[k]

\* the third job is executing after the first raised and the second returned
C16_Witness ==
    /\ pc = "running"
    /\ invoked = <<1, 2, 3>>
    /\ outcome = <<"raises", "success">>
    /\ Len(CompletedStocks) = 2

Started(s) == page[s].pc \in {"loop", "finished"}

RECURSIVE TotalCost(_)
TotalCost(ss) ==
    IF ss = {} THEN 0
    ELSE LET s == CHOOSE x \in ss : TRUE IN BatchCost(s) + TotalCost(ss \ {s})

\* C18 (as claimed): every batch that has started with a positive cost was
\* preceded by exactly one successful debit of that cost from its user's
\* balance, whatever the outcome of the calls made before the start; nothing
\* is debited in the job loop, so each balance is the initial one less the
\* costs of the user's debited batches.
C18_DebitExactlyOnce ==
    /\ \A s \in Sessions :
          (Started(s) /\ BatchCost(s) > 0) =>
              /\ page[s].debits = 1
              /\ page[s].balance_after = page[s].balance_before - BatchCost(s)
    /\ \A s \in Sessions : page[s].debits <= 1
    /\ \A u \in Users :
          points[u] = points0[u] - TotalCost({s \in SessionsOf(u) : page[s].debits = 1})

\* C19: a submission with an empty job list is turned down by the form's
\* check: nothing is debited for it, it gets no batch id, runs no job, never
\* finishes a batch, and the progress store has no entry.
C19_EmptyBatchRejected ==
    \A s \in Sessions :
        (page[s].pc # "form" /\ page[s].stock_symbols = <<>>) =>
            /\ page[s].pc = "empty"
            /\ page[s].debits = 0
            /\ page[s].current_batch_id = None
            /\ ~page[s].batch_analysis_running
            /\ page[s].jobs_run = 0
            /\ store.batches = EmptyDict

\* an empty submission was turned down while another session of the same
\* user, with balance to spend, started its batch
C19_Witness ==
    \E s \in Sessions, t \in Sessions :
        /\ page[s].pc = "empty"
        /\ page[t].user = page[s].user
        /\ page[t].pc = "finished"
        /\ page[t].debits = 1
        /\ points[page[s].user] = points0[page[s].user] - BatchCost(t)

\* C20 (as claimed): in every reachable state of a run, for every job list
\* and every outcome of the jobs, len(completed_stocks) <= current_index.
C20_CompletedAtMostCurrentIndex ==
    HasEntry(store, batch_id) => Len(CompletedStocks) <= ProgressInfo.current_index

\* C21: in every reachable state of a run, 0 <= current_index <= total_stocks;
\* no step of the run lowers current_index, and total_stocks and start_time
\* stay as init_batch set them.
C21_IndexWithinTotal ==
    /\ [](HasEntry(store, batch_id) =>
             /\ 0 <= ProgressInfo.current_index
             /\ ProgressInfo.current_index <= ProgressInfo.total_stocks
             /\ ProgressInfo.total_stocks = Total)
    /\ [][(HasEntry(store, batch_id) /\ HasEntry(store', batch_id)) =>
             /\ ProgressInfo'.current_index >= ProgressInfo.current_index
             /\ ProgressInfo'.total_stocks = ProgressInfo.total_stocks
             /\ ProgressInfo'.start_time = ProgressInfo.start_time]_vars

\* a three-job run is over, its last progress write made after the clock moved
C21_Witness ==
    /\ pc = "done"
    /\ Total = 3
    /\ ProgressInfo.current_index = 3
    /\ ProgressInfo.total_stocks = 3
    /\ RunEntry.last_update > ProgressInfo.start_time

\* C22: parse_stock_symbols returns, in input order, the formatted value of
\* every item of the text that validate_and_format_symbol accepts, a repeated
\* item as often as it was typed, and nothing else; validating a returned
\* symbol again for the same market accepts it and returns it unchanged.
C22_ParseAndIdempotence ==
    LET RECURSIVE Accepted(_)
        Accepted(ps) ==
            IF ps = << >> THEN << >>
            ELSE LET r == validate_and_format_symbol(Head(ps), form.market_type)
                 IN  (IF strip(Head(ps)) # << >> /\ r.ok THEN <<r.value>> ELSE << >>)
                         \o Accepted(Tail(ps))
    IN  \A parsed \in form.parsed :
            /\ parsed = Accepted(form.pieces)
            /\ \A k \in DOMAIN parsed :
                   validate_and_format_symbol(parsed[k], form.market_type)
                       = [ok |-> TRUE, value |-> parsed[k]]

C22_Witness ==
    /\ form.market_type = "HK"
    /\ form.pieces = << <<"0", "7", "0", "0">>, <<"7", "0", "0">>, <<"0", "7", "0", "0">> >>
    /\ form.parsed = {<< <<"0", "7", "0", "0", ".", "H", "K">>,
                         <<"0", "7", "0", "0", ".", "H", "K">> >>}

\* The run under the assumption that every call it makes returns or raises:
\* the worker executing run_batch_stock_analysis keeps taking its next step.
SpecLive == RunnerInit /\ [][RunnerNext]_vars /\ WF_vars(RunnerStep)

\* C23 (as claimed): every batch that run_batch_stock_analysis has started
\* eventually has status 'completed' or 'failed' in the store, whatever the
\* jobs and the progress consumer do.
C23_EventuallyTerminal ==
    HasEntry(store, batch_id) ~> (HasEntry(store, batch_id) /\ RunEntry.status \in Terminal)

\* C24 (as claimed): when an exception leaves run_batch_stock_analysis, that
\* is a fault outside the per-job handling, the batch has status 'failed'.
C24_FaultMarksFailed ==
    pc = "aborted" => (HasEntry(store, batch_id) /\ RunEntry.status = "failed")

\* C25: every entry of completed_stocks carries the stock_symbol of a job the
\* run has reached and a boolean success; an entry with success = False has
\* an error and no payload; an entry with success = True has the formatted
\* result and no error, and run_stock_analysis returned success for a job
\* with that symbol.
C25_ResultShape ==
    \A k \in DOMAIN CompletedStocks :
        LET entry == CompletedStocks[k] IN
        /\ entry.success \in BOOLEAN
        /\ \E j \in 1..Min(i + 1, Total) : entry.stock_symbol = stock_symbols[j]
        /\ ~entry.success => (entry.error # "none" /\ entry.payload = "none")
        /\ entry.success =>
               /\ entry.payload = "formatted"
               /\ entry.error = "none"
               /\ \E j \in DOMAIN outcome :
                      /\ outcome[j] = "success"
                      /\ stock_symbols[invoked[j]] = entry.stock_symbol

C25_Witness ==
    /\ pc = "done"
    /\ \E k \in DOMAIN CompletedStocks : CompletedStocks[k].success
    /\ \E k \in DOMAIN CompletedStocks :
           ~CompletedStocks[k].success /\ CompletedStocks[k].error = "returned"
    /\ \E k \in DOMAIN CompletedStocks :
           ~CompletedStocks[k].success /\ CompletedStocks[k].error = "raised"

\* C26 (as claimed): whenever the run starts a job that is not the first one,
\* the last status written to the store is the waiting status written after
\* the job before it, whether that job succeeded, returned failure or raised.
C26_WaitingBeforeNextJob ==
    [][(pc = "loop" /\ i >= 1 /\ i < Total /\ pc' # "loop")
           => ProgressInfo.status = "waiting"]_vars

\* C27: a call of init_batch, update_progress, add_completed_stock, set_status,
\* complete_batch, fail_batch or clear_batch with batch id A neither creates
\* nor removes the entry of any other batch id B and leaves every field of
\* it, nested objects included, as it was, in every interleaving of the
\* calls made for A and for B.
C27_BatchIndependence ==
    [][lastOp'.op \in MutatorOps \cup {"init_batch", "clear_batch"}
          => \A b \in BatchIds \ {lastOp'.id} :
                 /\ HasEntry(store', b) = HasEntry(store, b)
                 /\ HasEntry(store, b) => EntryValue(store', b) = EntryValue(store, b)]_vars

\* batch_a has just been cleared while batch_b holds a result
C27_Witness ==
    /\ lastOp = [op |-> "clear_batch", id |-> "batch_a"]
    /\ ~HasEntry(store, "batch_a")
    /\ HasEntry(store, "batch_b")
    /\ Len(EntryValue(store, "batch_b").completed_stocks) > 0

\* C28 (as claimed): each fine-grained progress write of job i of N reports
\* ((i - 1) + fine) / N as a percentage, where fine is 0 when step or
\* total_steps is absent or total_steps <= 0 and clamp(step / total_steps, 0, 1)
\* otherwise.
C28_ProgressFormula ==
    \A s \in Sessions : \A d \in page[s].progress_data :
        d.progress = overall_progress(d.current_index, d.total_stocks, d.step, d.total_steps)

\* the step creates the entry of the run's batch
EntryCreated == ~HasEntry(store, batch_id) /\ HasEntry(store', batch_id)

C30_PricingLookup ==
    quote # NoQuote =>
        \A r \in quote.model_points :
            LET provider == strip(lower(quote.llm_provider))
                model == strip(quote.llm_model)
                config == pricing.config
                Has(p, m) == \E k \in DOMAIN config :
                                 config[k].provider = p /\ config[k].model = m
                Points(p, m) == config[CHOOSE k \in DOMAIN config :
                                    config[k].provider = p /\ config[k].model = m].points
                UsesDefault == provider \in DefaultProviders /\ Has(provider, <<"default">>)
                Related == \E k \in DOMAIN config :
                               /\ config[k].provider = provider
                               /\ \/ startswith(model, config[k].model)
                                  \/ startswith(config[k].model, model)
            IN  /\ Has(provider, model) => r = Points(provider, model)
                /\ (~Has(provider, model) /\ UsesDefault)
                       => r = Points(provider, <<"default">>)
                /\ (~Has(provider, model) /\ ~UsesDefault /\ ~Related) => r = DEFAULT_POINTS

\* the exact entry was returned although an entry before it in the table is a
\* prefix of the requested model, for a provider typed with capitals and a
\* leading blank
C30_Witness ==
    /\ quote # NoQuote
    /\ pricing.config = CustomPricing.config
    /\ quote.llm_provider = <<" ", "DashScope">>
    /\ quote.llm_model = <<"qwen", "-turbo">>
    /\ quote.model_points = {4}

\* C31 (as claimed): the session of a user never adopts, as its current
\* analysis or as its restored results, an id that was created for another
\* user, a user whose name is the session's user name followed by an
\* underscore and a suffix included.
C31_OwnerCheck ==
    \A id \in restore.current_analysis_id \cup restore.analysis_results :
        \A c \in restore.created : c.id = id => c.owner = restore.username

\* C32: after any sequence of administrator edits and admission debits every
\* balance is a non-negative integer, and an edit whose value plus delta is
\* negative has stored 0 (any other edit has stored value plus delta).
C32_NonNegativeBalance ==
    /\ \A u \in Users : points[u] \in Nat
    /\ lastOp.op = "update_user" =>
           points[lastOp.id] = IF lastOp.new_points + lastOp.delta < 0 THEN 0
                               ELSE lastOp.new_points + lastOp.delta

\* an edit of value 0 and delta -1 has stored 0
C32_Witness ==
    /\ lastOp.op = "update_user"
    /\ lastOp.new_points + lastOp.delta < 0
    /\ points[lastOp.id] = 0
    /\ \E u \in Users : points[u] > 0

\* C33 (as claimed): when the batch page's loop has finished a batch of N
\* jobs, st.session_state.completed_stocks holds N entries, entry k being
\* that of job k, whatever the outcomes of the jobs.
C33_OneEntryPerJob ==
    \A s \in Sessions :
        page[s].batch_analysis_results # None =>
            /\ Len(page[s].completed_stocks) = Len(page[s].stock_symbols)
            /\ \A k \in DOMAIN page[s].completed_stocks :
                   page[s].completed_stocks[k].stock_symbol = page[s].stock_symbols[k]

\* C34 (as claimed): whenever a session's batch_analysis_running is True, it
\* is eventually set back to False, whatever happens during the loop.
C34_RunningFlagReleased ==
    \A s \in Sessions :
        page[s].batch_analysis_running ~> ~page[s].batch_analysis_running

\* C35 (as claimed): for the same job list and the same outcomes of the jobs,
\* the summary returned by run_batch_stock_analysis and the summary the batch
\* page's loop builds agree on total_stocks, successful_count, failed_count
\* and success_rate.
C35_OrchestratorsAgree ==
    (pc = "done" /\ ~progress_callback) =>
        LET completed_items ==
                [j \in DOMAIN outcome |->
                    IF outcome[j] = "success" THEN SuccessResult(stock_symbols[j])
                    ELSE FailureResult(stock_symbols[j], outcome[j])]
            inline == batch_analysis_results(completed_items, Total)
        IN  /\ summary.total_stocks = inline.total_stocks
            /\ summary.successful_count = inline.successful_count
            /\ summary.failed_count = inline.failed_count
            /\ summary.success_rate = inline.success_rate

\* C36: whenever no thread is inside the store, completed_stocks of every
\* batch holds the result of every finished add_completed_stock call on it
\* exactly once and nothing else, and current_index and progress of every
\* batch are those of one single update_progress call (or the initial ones);
\* and every call that has started finishes.
C36_NoLostWrites ==
    /\ [](threads.lock = {} =>
            \A b \in DOMAIN store.batches :
                LET list == store.lists[store.batches[b].completed_stocks]
                    info == store.dicts[store.batches[b].progress_info]
                    finished == UNION {threads.of[t].done : t \in DOMAIN threads.of}
                    added == {c \in finished : c.op = "add_completed_stock" /\ c.id = b}
                    updated == {c \in finished : c.op = "update_progress" /\ c.id = b}
                IN  /\ Len(list) = Cardinality(added)
                    /\ \A c \in added :
                           Cardinality({k \in DOMAIN list : list[k].analysis_time = c.n}) = 1
                    /\ info.current_index = info.progress
                    /\ updated # {} => \E c \in updated : info.progress = c.n)
    /\ \A t \in 1..NumThreads :
           (threads.of[t].pc # "idle") ~> (threads.of[t].pc = "idle")

\* two threads have each appended to batch_a and each updated it, and all
\* four calls have finished
C36_Witness ==
    /\ threads # NoThreads
    /\ threads.lock = {}
    /\ \A t \in 1..NumThreads :
           /\ threads.of[t].pc = "idle"
           /\ \E c \in threads.of[t].done : c.op = "add_completed_stock" /\ c.id = "batch_a"
           /\ \E c \in threads.of[t].done : c.op = "update_progress" /\ c.id = "batch_a"
    /\ Len(store.lists[store.batches["batch_a"].completed_stocks]) = 2

\* ------------------------------------------- model_points.py: the file on disk
\* CONFIG_FILE holds one JSON object: 'config', a list of {provider, model,
\* points}; 'research_depth_points', a dict that is empty when the key is
\* missing (the code treats both alike); 'points_toggle', None when the key is
\* missing and otherwise a dict over some of the two switches.  The caches are
\* loaded: every entry point loads a cache that is still None before using it.

\* lines 123-155: the object _save_config writes.  sorted() orders the items by
\* (provider, model); strings compare token by token, the tokens in the order
\* of their characters.
save_config(config) ==
    LET TokenOrder == <<"LF", " ", "-4", "-4o", "-latest", "-plus", "-turbo", "DashScope",
                        "OpenRouter", "dashscope", "default", "google", "gpt", "openrouter",
                        "qwen">>
        rank(c) == CHOOSE r \in DOMAIN TokenOrder : TokenOrder[r] = c
        lt(a, b) ==
            \/ Len(a) < Len(b) /\ SubSeq(b, 1, Len(a)) = a
            \/ \E q \in 1..Len(a) :
                  /\ q <= Len(b)
                  /\ SubSeq(a, 1, q - 1) = SubSeq(b, 1, q - 1)
                  /\ rank(a[q]) < rank(b[q])
        before(x, y) ==
            \/ lt(x.provider, y.provider)
            \/ x.provider = y.provider /\ lt(x.model, y.model)
        place(k) == 1 + Cardinality({j \in 1..Len(config) : before(config[j], config[k])})
    IN  [config |-> [r \in 1..Len(config) |->
                        config[CHOOSE k \in 1..Len(config) : place(k) = r]],
         research_depth_points |-> [d \in {} |-> 0],
         points_toggle |-> None]

\* lines 97-120, 309-337, 387-409 and 170-177: the three caches as
\* reload_config loads them from the file
reload_config(file) ==
    LET data == CHOOSE d \in file : TRUE
        items == data.config
        key(k) == <<strip(lower(items[k].provider)), strip(items[k].model)>>
        firsts == {k \in 1..Len(items) : \A j \in 1..(k - 1) : key(j) # key(k)}
        nth(r) == CHOOSE k \in firsts : Cardinality({j \in firsts : j < k}) = r - 1
        last(k) == CHOOSE j \in 1..Len(items) :
                       key(j) = key(k) /\ \A m \in (j + 1)..Len(items) : key(m) # key(k)
        toggle == CHOOSE t \in data.points_toggle : TRUE
    IN  IF file = None THEN DefaultPricing
        ELSE [config |->
                  [r \in 1..Cardinality(firsts) |->
                      [provider |-> key(nth(r))[1], model |-> key(nth(r))[2],
                       points |-> items[last(nth(r))].points]],
              research_depth_points |->
                  IF DOMAIN data.research_depth_points = {}
                  THEN DEFAULT_RESEARCH_DEPTH_POINTS_CONFIG
                  ELSE [d \in 1..5 |->
                           IF d \in DOMAIN data.research_depth_points
                           THEN data.research_depth_points[d]
                           ELSE DEFAULT_RESEARCH_DEPTH_POINTS_CONFIG[d]],
              points_toggle |->
                  IF data.points_toggle = None \/ DOMAIN toggle = {}
                  THEN DEFAULT_POINTS_TOGGLE_CONFIG
                  ELSE [enable_research_depth_points |->
                            IF "enable_research_depth_points" \in DOMAIN toggle
                            THEN toggle["enable_research_depth_points"] ELSE TRUE,
                        enable_model_points |->
                            IF "enable_model_points" \in DOMAIN toggle
                            THEN toggle["enable_model_points"] ELSE TRUE]]

\* The administrator's configuration page: no file yet, or a file an earlier
\* run saved, with or without depth points and switches.
ConfigInit ==
    /\ store = EmptyStore
    /\ clock = 0
    /\ snap = [r \in Readers |-> NoSnap]
    /\ seen = [r \in Readers |-> NoSnap]
    /\ lastOp = NoOp
    /\ ops = 0
    /\ stock_symbols = <<>>
    /\ batch_id = "batch_a"
    /\ owner = "alice"
    /\ progress_callback = FALSE
    /\ pc = "idle"
    /\ i = 0
    /\ callbacks = 0
    /\ results = EmptyDict
    /\ errors = <<>>
    /\ invoked = <<>>
    /\ outcome = <<>>
    /\ summary = EmptyDict
    /\ points = [u \in Users |-> 0]
    /\ points0 = points
    /\ page = [s \in Sessions |-> NewSession("alice")]
    /\ quote = NoQuote
    /\ form = NoForm
    /\ restore = NoRestore
    /\ threads = NoThreads
    /\ license = NoLicense
    /\ config_file \in
           {None,
            {save_config(DEFAULT_MODEL_POINTS_CONFIG)},
            {[save_config(CustomPricing.config) EXCEPT
                  !.research_depth_points = [d \in {2} |-> 4],
                  !.points_toggle = {[enable_model_points |-> TRUE]}]}}
    /\ pricing = reload_config(config_file)

\* lines 244-265; save_ok is whether _save_config could write the file
set_model_points(llm_provider, llm_model, new_points, save_ok) ==
    LET provider == strip(lower(llm_provider))
        model == strip(llm_model)
        cache == pricing.config
        at == {k \in 1..Len(cache) : cache[k].provider = provider /\ cache[k].model = model}
        config == IF at = {}
                  THEN Append(cache, [provider |-> provider, model |-> model,
                                      points |-> new_points])
                  ELSE [k \in 1..Len(cache) |->
                           IF k \in at THEN [cache[k] EXCEPT !.points = new_points]
                           ELSE cache[k]]
    IN  /\ ops < MaxOps
        /\ ops' = ops + 1
        /\ lastOp' = [op |-> "set_model_points", id |-> "", returned |-> save_ok]
        /\ IF save_ok
           THEN /\ config_file' = {save_config(config)}
                /\ pricing' = reload_config(config_file')
           ELSE /\ config_file' = config_file
                /\ pricing' = [pricing EXCEPT !.config = config]
        /\ UNCHANGED <<store, clock, snap, seen, runnerVars, pageVars, quote, formVars,
                       restore, threads, license>>

\* lines 268-290
delete_model_points(llm_provider, llm_model, save_ok) ==
    LET provider == strip(lower(llm_provider))
        model == strip(llm_model)
        cache == pricing.config
        keep == {k \in 1..Len(cache) :
                    ~(cache[k].provider = provider /\ cache[k].model = model)}
        nth(r) == CHOOSE k \in keep : Cardinality({j \in keep : j < k}) = r - 1
        config == [r \in 1..Cardinality(keep) |-> cache[nth(r)]]
        found == Cardinality(keep) < Len(cache)
    IN  /\ ops < MaxOps
        /\ ops' = ops + 1
        /\ lastOp' = [op |-> "delete_model_points", id |-> "",
                      returned |-> found /\ save_ok]
        /\ IF found /\ save_ok
           THEN /\ config_file' = {save_config(config)}
                /\ pricing' = reload_config(config_file')
           ELSE /\ config_file' = config_file
                /\ pricing' = [pricing EXCEPT !.config = config]
        /\ UNCHANGED <<store, clock, snap, seen, runnerVars, pageVars, quote, formVars,
                       restore, threads, license>>

\* lines 515-558; save_ok is whether the file could be written
set_research_depth_points(research_depth, new_points, save_ok) ==
    LET valid == research_depth \in 1..5
        data == IF config_file # None THEN CHOOSE d \in config_file : TRUE
                ELSE [config |-> << >>, research_depth_points |-> [d \in {} |-> 0],
                      points_toggle |-> None]
        written == [data EXCEPT !.research_depth_points =
                                    Put(data.research_depth_points, research_depth,
                                        new_points)]
    IN  /\ ops < MaxOps
        /\ ops' = ops + 1
        /\ lastOp' = [op |-> "set_research_depth_points", id |-> "",
                      returned |-> valid /\ save_ok]
        /\ IF valid /\ save_ok
           THEN /\ config_file' = {written}
                /\ pricing' = [pricing EXCEPT !.research_depth_points =
                                   reload_config(config_file').research_depth_points]
           ELSE UNCHANGED <<config_file, pricing>>
        /\ UNCHANGED <<store, clock, snap, seen, runnerVars, pageVars, quote, formVars,
                       restore, threads, license>>

\* lines 434-480; a switch of None is left as it is
set_points_toggle_config(enable_research_depth_points, enable_model_points, save_ok) ==
    LET data == IF config_file # None THEN CHOOSE d \in config_file : TRUE
                ELSE [config |-> << >>, research_depth_points |-> [d \in {} |-> 0],
                      points_toggle |-> {[n \in {} |-> TRUE]}]
        t0 == IF data.points_toggle = None THEN DEFAULT_POINTS_TOGGLE_CONFIG
              ELSE CHOOSE t \in data.points_toggle : TRUE
        t1 == IF enable_research_depth_points = None THEN t0
              ELSE Put(t0, "enable_research_depth_points",
                       CHOOSE b \in enable_research_depth_points : TRUE)
        t2 == IF enable_model_points = None THEN t1
              ELSE Put(t1, "enable_model_points", CHOOSE b \in enable_model_points : TRUE)
    IN  /\ ops < MaxOps
        /\ ops' = ops + 1
        /\ lastOp' = [op |-> "set_points_toggle_config", id |-> "", returned |-> save_ok]
        /\ IF save_ok
           THEN /\ config_file' = {[data EXCEPT !.points_toggle = {t2}]}
                /\ pricing' = [pricing EXCEPT !.points_toggle =
                                   reload_config(config_file').points_toggle]
           ELSE UNCHANGED <<config_file, pricing>>
        /\ UNCHANGED <<store, clock, snap, seen, runnerVars, pageVars, quote, formVars,
                       restore, threads, license>>

\* lines 170-177, called when a configuration page is drawn
\* (config_management.py lines 299 and 664)
ReloadConfig ==
    /\ ops < MaxOps
    /\ ops' = ops + 1
    /\ lastOp' = [op |-> "reload_config", id |-> "", returned |-> TRUE]
    /\ pricing' = reload_config(config_file)
    /\ UNCHANGED <<store, clock, snap, seen, runnerVars, pageVars, quote, formVars,
                   restore, threads, config_file, license>>

SpecConfig ==
    /\ ConfigInit
    /\ [][\/ \E llm_provider \in {<<"dashscope">>, <<"OpenRouter", " ">>},
               llm_model \in {<<"qwen", "-plus">>, <<"gpt", "-4o">>},
               new_points \in {3}, save_ok \in BOOLEAN :
                \/ set_model_points(llm_provider, llm_model, new_points, save_ok)
                \/ delete_model_points(llm_provider, llm_model, save_ok)
          \/ \E research_depth \in {0, 1, 5}, new_points \in {3}, save_ok \in BOOLEAN :
                set_research_depth_points(research_depth, new_points, save_ok)
          \/ \E enable_research_depth_points \in {None, {FALSE}},
               enable_model_points \in {None, {TRUE}, {FALSE}}, save_ok \in BOOLEAN :
                set_points_toggle_config(enable_research_depth_points, enable_model_points,
                                         save_ok)
          \/ ReloadConfig]_vars

\* Claims C37 ------------------------------------------------------------
\* C37: a call of set_model_points or delete_model_points that returns False
\* leaves the table in memory as it was: get_model_points returns after the
\* call what it returned before it, for every provider and model.
C37_FailedSaveKeepsPricing ==
    [][(/\ ops' = ops + 1
        /\ lastOp'.op \in {"set_model_points", "delete_model_points"}
        /\ ~lastOp'.returned)
       => \A llm_provider \in Providers, llm_model \in Models \cup {<<"qwen", "-plus">>} :
              get_model_points(pricing'.config, llm_provider, llm_model)
                  = get_model_points(pricing.config, llm_provider, llm_model)]_vars

\* C38: set_research_depth_points and set_points_toggle_config change the
\* points of no provider and model: get_model_points returns what it returned
\* before the call, right after the call and after reload_config has loaded
\* the file the call left.
C38_DepthAndToggleKeepModelPoints ==
    [][(/\ ops' = ops + 1
        /\ lastOp'.op \in {"set_research_depth_points", "set_points_toggle_config"})
       => \A llm_provider \in Providers, llm_model \in Models \cup {<<"qwen", "-plus">>} :
              /\ get_model_points(pricing'.config, llm_provider, llm_model)
                     = get_model_points(pricing.config, llm_provider, llm_model)
              /\ get_model_points(reload_config(config_file').config, llm_provider, llm_model)
                     = get_model_points(pricing.config, llm_provider, llm_model)]_vars

\* ----------------------------------------------------------- license_manager.py
\* The activation of the batch feature.  The license file of a user holds the
\* user's machine code and whether the user is activated; a missing or
\* unreadable file reads as {}, a missing key as None or False.  A caller
\* without a username ('' or None) uses the one global file, here user "".
\* Strings are sequences of characters.  A machine code is the decimal text of
\* abs(hash(...)), which differs from one process to the next: any code.

\* lines 71-74
is_activated(files, username) == files[username].activated

\* lines 77-81, for now = [year, month, day, hour]
expected_password(now, machine_code) ==
    LET digits == <<"0", "1", "2", "3", "4", "5", "6", "7", "8", "9">>
        tail == SubSeq(machine_code,
                       IF Len(machine_code) > 3 THEN Len(machine_code) - 2 ELSE 1,
                       Len(machine_code))
        isdigit == tail # << >> /\ \A k \in 1..Len(tail) : \E v \in 1..10 : digits[v] = tail[k]
        digit(c) == (CHOOSE v \in 1..10 : digits[v] = c) - 1
        RECURSIVE int(_)
        int(t) == IF t = << >> THEN 0
                  ELSE 10 * int(SubSeq(t, 1, Len(t) - 1)) + digit(t[Len(t)])
        last3 == IF isdigit THEN int(tail) ELSE 0
    IN  (now.year + now.month + now.day + now.hour) * 7 + last3

\* line 107: now - timedelta(hours=1)
prev_hour(now) ==
    LET leap == now.year % 4 = 0 /\ (now.year % 100 # 0 \/ now.year % 400 = 0)
        days(month) == CASE month \in {4, 6, 9, 11} -> 30
                         [] month = 2 -> IF leap THEN 29 ELSE 28
                         [] OTHER -> 31
    IN  IF now.hour > 0 THEN [now EXCEPT !.hour = now.hour - 1]
        ELSE IF now.day > 1 THEN [now EXCEPT !.day = now.day - 1, !.hour = 23]
        ELSE IF now.month > 1
             THEN [now EXCEPT !.month = now.month - 1, !.day = days(now.month - 1),
                              !.hour = 23]
        ELSE [year |-> now.year - 1, month |-> 12, day |-> 31, hour |-> 23]

LicenseInit ==
    /\ store = EmptyStore
    /\ clock = 0
    /\ snap = [r \in Readers |-> NoSnap]
    /\ seen = [r \in Readers |-> NoSnap]
    /\ lastOp = NoOp
    /\ ops = 0
    /\ stock_symbols = <<>>
    /\ batch_id = "batch_a"
    /\ owner = "alice"
    /\ progress_callback = FALSE
    /\ pc = "idle"
    /\ i = 0
    /\ callbacks = 0
    /\ results = EmptyDict
    /\ errors = <<>>
    /\ invoked = <<>>
    /\ outcome = <<>>
    /\ summary = EmptyDict
    /\ points = [u \in Users |-> 0]
    /\ points0 = points
    /\ page = [s \in Sessions |-> NewSession("alice")]
    /\ pricing = DefaultPricing
    /\ quote = NoQuote
    /\ form = NoForm
    /\ restore = NoRestore
    /\ threads = NoThreads
    /\ config_file = NoConfigFile
    /\ license = NoLicense

\* lines 59-67; generated is the code _generate_machine_code returns, save_ok
\* whether _save_license can write the file
get_or_create_machine_code(username, generated, save_ok) ==
    LET data == license[username]
        code == IF data.machine_code = None THEN generated
                ELSE CHOOSE c \in data.machine_code : TRUE
    IN  /\ ops < MaxOps
        /\ ops' = ops + 1
        /\ lastOp' = [op |-> "get_or_create_machine_code", id |-> username,
                      returned |-> code]
        /\ license' = IF data.machine_code = None /\ save_ok
                      THEN [license EXCEPT ![username].machine_code = {code}]
                      ELSE license
        /\ UNCHANGED <<store, clock, snap, seen, runnerVars, pageVars, pricingVars, formVars,
                       restore, threads, config_file>>

verify_and_activate_two_hours(input_password, username, now, generated, save_ok) ==
    LET data == license[username]
        code == IF data.machine_code = None THEN generated
                ELSE CHOOSE c \in data.machine_code : TRUE
        digits == <<"0", "1", "2", "3", "4", "5", "6", "7", "8", "9">>
        str(n) == LET len == CHOOSE k \in 1..9 : n < 10 ^ k /\ (k = 1 \/ n >= 10 ^ (k - 1))
                  IN  [k \in 1..len |-> digits[((n \div (10 ^ (len - k))) % 10) + 1]]
        exp == expected_password(now, code)
        input_pwd == strip(input_password)
        exp_prev == expected_password(prev_hour(now), code)
        ok == \/ input_pwd = str(exp)
              \/ input_pwd = str(exp_prev)
              \/ input_pwd = str(expected_password(prev_hour(prev_hour(now)), code))
    IN  /\ ops < MaxOps
        /\ ops' = ops + 1
        /\ lastOp' = [op |-> "verify_and_activate", id |-> username,
                      input_password |-> input_password, now |-> now, returned |-> ok]
        /\ license' = IF save_ok
                      THEN [license EXCEPT ![username] =
                               [machine_code |-> {code}, activated |-> data.activated \/ ok]]
                      ELSE license
        /\ UNCHANGED <<store, clock, snap, seen, runnerVars, pageVars, pricingVars, formVars,
                       restore, threads, config_file>>

\* lines 84-118
verify_and_activate(input_password, username, now, generated, save_ok) ==
    LET data == license[username]
        code == IF data.machine_code = None THEN generated
                ELSE CHOOSE c \in data.machine_code : TRUE
        digits == <<"0", "1", "2", "3", "4", "5", "6", "7", "8", "9">>
        str(n) == LET len == CHOOSE k \in 1..9 : n < 10 ^ k /\ (k = 1 \/ n >= 10 ^ (k - 1))
                  IN  [k \in 1..len |-> digits[((n \div (10 ^ (len - k))) % 10) + 1]]
        exp == expected_password(now, code)
        input_pwd == strip(input_password)
        exp_prev == expected_password(prev_hour(now), code)
        ok == input_pwd = str(exp) \/ input_pwd = str(exp_prev)
    IN  /\ ops < MaxOps
        /\ ops' = ops + 1
        /\ lastOp' = [op |-> "verify_and_activate", id |-> username,
                      input_password |-> input_password, now |-> now, returned |-> ok]
        /\ license' = IF save_ok
                      THEN [license EXCEPT ![username] =
                               [machine_code |-> {code}, activated |-> data.activated \/ ok]]
                      ELSE license
        /\ UNCHANGED <<store, clock, snap, seen, runnerVars, pageVars, pricingVars, formVars,
                       restore, threads, config_file>>

\* Any user, at 19h on 2026-11-01 or in the first hour of 2026, with the codes
\* of a machine code ending in 042: of 19h, of 18h padded with white space, of
\* 17h, of 19h with a leading zero, of the last hour of 2025, and no text.
SpecLicense ==
    /\ LicenseInit
    /\ [][\E username \in Users \cup {""},
             generated \in {<<"1", "2", "3", "4", "5", "6", "7", "0", "4", "2">>,
                            <<"1", "2", "3", "4", "5", "6", "7", "0", "0", "7">>},
             save_ok \in BOOLEAN :
              \/ get_or_create_machine_code(username, generated, save_ok)
              \/ \E now \in {[year |-> 2026, month |-> 11, day |-> 1, hour |-> 19],
                             [year |-> 2026, month |-> 1, day |-> 1, hour |-> 0]},
                    input_password \in
                        {<<"1", "4", "4", "4", "1">>, <<" ", "1", "4", "4", "3", "4", "LF">>,
                         <<"1", "4", "4", "2", "7">>, <<"0", "1", "4", "4", "4", "1">>,
                         <<"1", "4", "6", "7", "9">>, << >>} :
                    verify_and_activate(input_password, username, now, generated, save_ok)]_vars

====
